---- MODULE Spec2Model ----
(***************************************************************************)
(* Database-abstraction and live-migration layer of scholar-weave:         *)
(* the RepositoryFactory singleton, the two repository variants            *)
(* (PostgreSQL through Prisma, MongoDB through Mongoose) and the           *)
(* /api/database/switch and /api/database/migrate request handlers.        *)
(*                                                                         *)
(* Text values (titles, keywords, DOIs, note contents) are sequences of    *)
(* one-character strings so that toLowerCase, substring and "contains"     *)
(* are computed; the empty sequence stands for an absent (undefined/null)  *)
(* optional field.  Tags are numbers ordered like the strings they stand   *)
(* for, so that Array.prototype.sort is computed.                          *)
(***************************************************************************)
EXTENDS Integers, Sequences, FiniteSets, TLC

VARIABLES
    env,        \* process.env['DATABASE_TYPE'] (Unset when never configured)
    factory,    \* fields of the RepositoryFactory singleton
    connected,  \* connected[e]: the connection singleton of engine e is connected
    papers,     \* papers[e]: rows / documents of the papers table / collection of engine e
    authors,    \* rows of the PostgreSQL authors table
    notes,      \* notes[e]: rows / documents of the notes table / collection of engine e
    nextId,     \* nextId[e]: number of ids engine e has generated so far
    server,     \* position of startServer()
    mig,        \* local variables and position of the /api/database/migrate handler
    lastRun,    \* outcome of the migrate request that completed last with nothing after it
    runs,       \* number of migrate requests accepted so far
    apiCreates, \* number of records created through POST /api/papers and POST /api/notes
    faults,     \* number of storage operations that have thrown so far
    ret,        \* the last direct repository call, or the last request served beside another
                \* one, and what it returned or threw
    stats,      \* local variables and position of the /api/database/stats handler
    citations,  \* citations[e]: <<sourcePaperId, targetPaperId>> of the rows / documents of
                \* the citations table / collection of engine e
    creating,   \* creating[c]: position and argument of the open call c of
                \* PostgresPaperRepository.create, and how it ended
    other       \* position of the initialize() call of one more open request

vars == <<env, factory, connected, papers, authors, notes, nextId, server, mig, lastRun, runs,
          apiCreates, faults, ret, stats, citations, creating, other>>

----------------------------------------------------------------------------
(* Bounds of the model *)

MaxApiCreates == 2   \* records created through POST /api/papers and POST /api/notes
MaxRuns == 2         \* migrate requests
MaxFaults == 1       \* storage operations that throw

(* Program constants *)

FindAllLimit == 10000
ContentPrefixLen == 100

----------------------------------------------------------------------------
(* Values *)

Engines == {"postgres", "mongodb"}
Unset == "<unset>"
Null == "null"
Absent == <<>>

(* the empty string '': a value to the stores, false to a JavaScript condition *)
Empty == <<"">>

Truthy(x) == x # Absent /\ x # Empty

(* x || undefined *)
OrUndefined(x) == IF Truthy(x) THEN x ELSE Absent

PgId(n) == <<"pg", n>>
MgId(n) == <<"mg", n>>
NewId(e, n) == IF e = "postgres" THEN PgId(n) ELSE MgId(n)

Min(a, b) == IF a < b THEN a ELSE b

----------------------------------------------------------------------------
(* Text *)

LowerChar(c) == IF c = "A" THEN "a" ELSE IF c = "B" THEN "b" ELSE c

ToLowerCase(s) == [i \in 1..Len(s) |-> LowerChar(s[i])]

Substring(s, from, to) == SubSeq(s, from + 1, Min(to, Len(s)))

Contains(s, q) ==
    \E i \in 0..(Len(s) - Len(q)) : SubSeq(s, i + 1, i + Len(q)) = q

ContainsInsensitive(s, q) == Contains(ToLowerCase(s), ToLowerCase(q))

(* The words of a text: maximal runs of characters other than the blank. *)
RECURSIVE WordsFrom(_, _, _)
WordsFrom(s, i, cur) ==
    IF i > Len(s)
    THEN IF cur = <<>> THEN {} ELSE {cur}
    ELSE IF s[i] = " "
         THEN (IF cur = <<>> THEN {} ELSE {cur}) \cup WordsFrom(s, i + 1, <<>>)
         ELSE WordsFrom(s, i + 1, Append(cur, s[i]))

Words(s) == WordsFrom(ToLowerCase(s), 1, <<>>)

(* Array.prototype.sort on a tag list: ascending insertion sort. *)
RECURSIVE InsertSorted(_, _)
InsertSorted(x, s) ==
    IF s = <<>> THEN <<x>>
    ELSE IF x <= Head(s) THEN <<x>> \o s
    ELSE <<Head(s)>> \o InsertSorted(x, Tail(s))

RECURSIVE SortTags(_)
SortTags(s) == IF s = <<>> THEN <<>> ELSE InsertSorted(Head(s), SortTags(Tail(s)))

(* Rows ordered by createdAt descending; an engine's ids grow with creation time. *)
RECURSIVE NewestFirst(_)
NewestFirst(S) ==
    IF S = {} THEN <<>>
    ELSE LET r == CHOOSE x \in S : \A y \in S : y.id[2] <= x.id[2]
         IN  <<r>> \o NewestFirst(S \ {r})

Take(s, n) == SubSeq(s, 1, Min(n, Len(s)))

----------------------------------------------------------------------------
(* PostgresPaperRepository and MongoPaperRepository.                        *)
(* P is the set of paper rows of the engine, A the PostgreSQL authors table. *)

Thrown(err) == [ok |-> FALSE, err |-> err]

AffiliationOf(A, name) ==
    IF \E a \in A : a.name = name
    THEN (CHOOSE a \in A : a.name = name).affiliation
    ELSE Absent

MapToPaper(v, row, A) ==
    IF v = "postgres"
    THEN [row EXCEPT !.authors =
              [i \in 1..Len(row.authors) |->
                  [name |-> row.authors[i], affiliation |-> AffiliationOf(A, row.authors[i])]],
                     !.journal = OrUndefined(@), !.conference = OrUndefined(@),
                     !.doi = OrUndefined(@)]
    ELSE row

(* find-or-create of the author rows inside the create transaction *)
RECURSIVE UpsertAuthors(_, _)
UpsertAuthors(A, as) ==
    IF as = <<>> THEN A
    ELSE LET a == Head(as)
             A1 == IF \E x \in A : x.name = a.name THEN A ELSE A \cup {a}
         IN  UpsertAuthors(A1, Tail(as))

DistinctNames(as) == \A i, j \in 1..Len(as) : as[i].name = as[j].name => i = j

(* create: the DOI pre-check runs under if (data.doi); the unique constraint on doi *)
(* and the unique constraint on author names fail the transaction otherwise        *)
(* the $transaction of create: paper.create, which the unique index on doi can *)
(* reject, then the authors and their links                                   *)
PostgresPaperInsert(data, P, A, n) ==
    IF data.doi # Absent /\ \E r \in P : r.doi = data.doi
    THEN Thrown("Failed to create paper")
    ELSE IF ~DistinctNames(data.authors)
    THEN Thrown("Failed to create paper")
    ELSE LET row == [id |-> PgId(n + 1), title |-> data.title, doi |-> data.doi,
                     keywords |-> data.keywords, journal |-> data.journal,
                     conference |-> data.conference,
                     authors |-> [i \in 1..Len(data.authors) |-> data.authors[i].name]]
         IN  [ok |-> TRUE, papers |-> P \cup {row}, authors |-> UpsertAuthors(A, data.authors),
              id |-> row.id]

(* the findUnique test of create *)
DoiTaken(data, P) == Truthy(data.doi) /\ \E r \in P : r.doi = data.doi

PostgresPaperCreate(data, P, A, n) ==
    IF DoiTaken(data, P) THEN Thrown("DuplicateEntityError")
    ELSE PostgresPaperInsert(data, P, A, n)

MongoPaperCreate(data, P, A, n) ==
    IF data.doi # Absent /\ \E r \in P : r.doi = data.doi
    THEN Thrown("DuplicateEntityError")
    ELSE IF data.title = Absent
    THEN Thrown("Failed to create paper")
    ELSE LET doc == [id |-> MgId(n + 1), title |-> data.title, doi |-> data.doi,
                     keywords |-> data.keywords, journal |-> data.journal,
                     conference |-> data.conference, authors |-> data.authors]
         IN  [ok |-> TRUE, papers |-> P \cup {doc}, authors |-> A, id |-> doc.id]

PaperCreate(v, data, P, A, n) ==
    IF v = "postgres" THEN PostgresPaperCreate(data, P, A, n) ELSE MongoPaperCreate(data, P, A, n)

PaperFindAll(v, limit, P, A) ==
    LET all == NewestFirst(P)
    IN  Take([i \in 1..Len(all) |-> MapToPaper(v, all[i], A)], limit)

(* a Paper | null result is a sequence of at most one paper *)
PaperFindByDoi(v, doi, P, A) ==
    IF \E r \in P : r.doi = doi
    THEN <<MapToPaper(v, CHOOSE r \in P : r.doi = doi, A)>>
    ELSE <<>>

PostgresFindByKeyword(keyword, P, A) ==
    LET hit == NewestFirst({r \in P : keyword \in r.keywords})
    IN  [i \in 1..Len(hit) |-> MapToPaper("postgres", hit[i], A)]

MongoFindByKeyword(keyword, P, A) ==
    NewestFirst({r \in P : \E k \in r.keywords : ContainsInsensitive(k, keyword)})

PaperFindByKeyword(v, keyword, P, A) ==
    IF v = "postgres" THEN PostgresFindByKeyword(keyword, P, A) ELSE MongoFindByKeyword(keyword, P, A)

(* delete: the row and, in PostgreSQL, the notes that reference it (ON DELETE CASCADE) *)
PaperDelete(v, id, P, N) ==
    [found |-> \E r \in P : r.id = id,
     papers |-> {r \in P : r.id # id},
     notes |-> IF v = "postgres" THEN {x \in N : x.paperId # id} ELSE N]

(* addCitation: prisma.citation.create; the foreign keys want both papers and *)
(* the pair is unique                                                        *)
PostgresAddCitation(sourcePaperId, targetPaperId, C, P) ==
    IF /\ \E r \in P : r.id = sourcePaperId
       /\ \E r \in P : r.id = targetPaperId
       /\ <<sourcePaperId, targetPaperId>> \notin C
    THEN [ok |-> TRUE, citations |-> C \cup {<<sourcePaperId, targetPaperId>>}]
    ELSE Thrown("Failed to add citation")

(* addCitation: the document is saved with context: '', which the schema's *)
(* required: true on the String path context rejects                       *)
MongoAddCitation(sourcePaperId, targetPaperId, C, P) == Thrown("RepositoryError")

PaperAddCitation(v, sourcePaperId, targetPaperId, C, P) ==
    IF v = "postgres" THEN PostgresAddCitation(sourcePaperId, targetPaperId, C, P)
    ELSE MongoAddCitation(sourcePaperId, targetPaperId, C, P)

(* the citation rows left once the paper rows are P: in PostgreSQL a citation    *)
(* is deleted with its source paper and with its target paper (onDelete:      *)
(* Cascade on both relations); MongoDB has no such rule                       *)
CitationsLeft(v, C, P) ==
    IF v = "postgres"
    THEN {c \in C : (\E r \in P : r.id = c[1]) /\ (\E r \in P : r.id = c[2])}
    ELSE C

----------------------------------------------------------------------------
(* PostgresNoteRepository and MongoNoteRepository.                          *)
(* N is the set of note rows of the engine, P the paper rows of PostgreSQL. *)

UpperType(t) == IF t = "highlight" THEN "HIGHLIGHT" ELSE IF t = "comment" THEN "COMMENT" ELSE t
LowerType(t) == IF t = "HIGHLIGHT" THEN "highlight" ELSE IF t = "COMMENT" THEN "comment" ELSE t

PostgresNoteCreate(data, N, P, n) ==
    IF data.paperId # Absent /\ ~\E r \in P : r.id = data.paperId
    THEN Thrown("Failed to create note")
    ELSE LET row == [id |-> PgId(n + 1), paperId |-> data.paperId, content |-> data.content,
                     tags |-> data.tags,
                     annotations |-> [i \in 1..Len(data.annotations) |->
                         [id |-> <<"pa", n + 1, i>>,
                          type |-> UpperType(data.annotations[i].type),
                          pageNumber |-> data.annotations[i].pageNumber]]]
         IN  [ok |-> TRUE, notes |-> N \cup {row}, id |-> row.id]

MongoNoteCreate(data, N, P, n) ==
    IF data.content = Absent
    THEN Thrown("Failed to create note")
    ELSE LET doc == [id |-> MgId(n + 1), paperId |-> data.paperId, content |-> data.content,
                     tags |-> data.tags, annotations |-> <<>>]
         IN  [ok |-> TRUE, notes |-> N \cup {doc}, id |-> doc.id]

NoteCreate(v, data, N, P, n) ==
    IF v = "postgres" THEN PostgresNoteCreate(data, N, P, n) ELSE MongoNoteCreate(data, N, P, n)

MapToNote(v, row) ==
    IF v = "postgres"
    THEN [row EXCEPT !.annotations =
              [i \in 1..Len(row.annotations) |-> [row.annotations[i] EXCEPT !.type = LowerType(@)]]]
    ELSE row

MapNotes(v, S) ==
    LET all == NewestFirst(S) IN [i \in 1..Len(all) |-> MapToNote(v, all[i])]

NoteFindAll(v, limit, N) == Take(MapNotes(v, N), limit)

NoteFindByPaperId(v, paperId, N) == MapNotes(v, {r \in N : r.paperId = paperId})

PostgresFindByContent(query, N) ==
    MapNotes("postgres", {r \in N : ContainsInsensitive(r.content, query)})

(* $text search: a document matches when it holds one of the words of the query *)
(* (the tags of the model share no word with any content)                        *)
MongoFindByContent(query, N) ==
    MapNotes("mongodb", {r \in N : Words(query) \cap Words(r.content) # {}})

NoteFindByContent(v, query, N) ==
    IF v = "postgres" THEN PostgresFindByContent(query, N) ELSE MongoFindByContent(query, N)

NoteDelete(v, id, N) ==
    [found |-> \E r \in N : r.id = id, notes |-> {r \in N : r.id # id}]

----------------------------------------------------------------------------
(* Calls on one repository: findById, update, delete, count and the annotation *)
(* operations.  An outcome names the error thrown ("none" when the call        *)
(* returned), the value returned (a Paper | null or Note | null result is a    *)
(* sequence of at most one record), the boolean returned by delete, and the    *)
(* tables after the call.  A Partial<...> argument is a record that holds the  *)
(* named fields only.                                                          *)

Returned(val, P, A, N) ==
    [err |-> "none", val |-> val, found |-> FALSE, papers |-> P, authors |-> A, notes |-> N,
     made |-> 0]

ReturnedFlag(found, P, A, N) ==
    [err |-> "none", val |-> <<>>, found |-> found, papers |-> P, authors |-> A, notes |-> N,
     made |-> 0]

Threw(err, P, A, N) ==
    [err |-> err, val |-> <<>>, found |-> FALSE, papers |-> P, authors |-> A, notes |-> N,
     made |-> 0]

(* the call generated an id *)
Made(outcome) == [outcome EXCEPT !.made = 1]

(* Mongoose casts the id of a query to ObjectId; an id of another shape is a CastError *)
Castable(id) == id[1] = "mg"

Named(data, f) == f \in DOMAIN data

(* data.f when the partial names f, the stored value otherwise *)
Given(data, f, old) == IF Named(data, f) THEN data[f] ELSE old

RowOf(S, id) == CHOOSE r \in S : r.id = id

PostgresPaperFindById(id, P, A, N) ==
    IF \E r \in P : r.id = id
    THEN Returned(<<MapToPaper("postgres", RowOf(P, id), A)>>, P, A, N)
    ELSE Returned(<<>>, P, A, N)

MongoPaperFindById(id, P, A, N) ==
    IF ~Castable(id) THEN Threw("RepositoryError", P, A, N)
    ELSE IF \E r \in P : r.id = id
    THEN Returned(<<MapToPaper("mongodb", RowOf(P, id), A)>>, P, A, N)
    ELSE Returned(<<>>, P, A, N)

PaperFindById(v, id, P, A, N) ==
    IF v = "postgres" THEN PostgresPaperFindById(id, P, A, N) ELSE MongoPaperFindById(id, P, A, N)

PostgresPaperUpdate(id, data, P, A, N) ==
    IF ~\E r \in P : r.id = id
    THEN Threw("EntityNotFoundError", P, A, N)
    ELSE LET old == RowOf(P, id)
         IN  IF Named(data, "doi") /\ Truthy(data.doi) /\ data.doi # old.doi
                /\ \E r \in P : r.doi = data.doi
             THEN Threw("DuplicateEntityError", P, A, N)
             ELSE IF Named(data, "doi") /\ data.doi # Absent
                     /\ \E r \in P \ {old} : r.doi = data.doi
             THEN Threw("Failed to update paper", P, A, N)
             ELSE IF Named(data, "authors") /\ ~DistinctNames(data.authors)
             THEN Threw("Failed to update paper", P, A, N)
             ELSE LET row == [id |-> id,
                              title |-> Given(data, "title", old.title),
                              doi |-> Given(data, "doi", old.doi),
                              keywords |-> Given(data, "keywords", old.keywords),
                              journal |-> Given(data, "journal", old.journal),
                              conference |-> Given(data, "conference", old.conference),
                              authors |-> IF Named(data, "authors")
                                          THEN [i \in 1..Len(data.authors) |-> data.authors[i].name]
                                          ELSE old.authors]
                      A1 == IF Named(data, "authors") THEN UpsertAuthors(A, data.authors) ELSE A
                  IN  Returned(<<MapToPaper("postgres", row, A1)>>, (P \ {old}) \cup {row}, A1, N)

(* update: title and keywords are taken when truthy, journal, conference and doi *)
(* when not undefined, the author list never                                     *)
MongoPaperUpdate(id, data, P, A, N) ==
    IF ~Castable(id) THEN Threw("RepositoryError", P, A, N)
    ELSE IF ~\E r \in P : r.id = id THEN Returned(<<>>, P, A, N)
    ELSE LET old == RowOf(P, id)
             doc == [old EXCEPT
                        !.title = IF Named(data, "title") /\ Truthy(data.title)
                                  THEN data.title ELSE @,
                        !.keywords = Given(data, "keywords", @),
                        !.journal = Given(data, "journal", @),
                        !.conference = Given(data, "conference", @),
                        !.doi = Given(data, "doi", @)]
         IN  IF doc.doi # Absent /\ \E r \in P \ {old} : r.doi = doc.doi
             THEN Threw("DuplicateEntityError", P, A, N)
             ELSE Returned(<<MapToPaper("mongodb", doc, A)>>, (P \ {old}) \cup {doc}, A, N)

PaperUpdate(v, id, data, P, A, N) ==
    IF v = "postgres" THEN PostgresPaperUpdate(id, data, P, A, N)
    ELSE MongoPaperUpdate(id, data, P, A, N)

PostgresPaperDeleteById(id, P, A, N) ==
    LET d == PaperDelete("postgres", id, P, N)
    IN  ReturnedFlag(d.found, d.papers, A, d.notes)

MongoPaperDeleteById(id, P, A, N) ==
    IF ~Castable(id) THEN Threw("RepositoryError", P, A, N)
    ELSE LET d == PaperDelete("mongodb", id, P, N)
         IN  ReturnedFlag(d.found, d.papers, A, d.notes)

PaperDeleteById(v, id, P, A, N) ==
    IF v = "postgres" THEN PostgresPaperDeleteById(id, P, A, N)
    ELSE MongoPaperDeleteById(id, P, A, N)

PaperCount(P) == Cardinality(P)

SearchLimit == 10

(* search({query}): where.OR of title and abstract, contains with mode 'insensitive'; *)
(* the papers of the model carry no abstract text, and a store of the model holds     *)
(* less than one page of papers                                                       *)
PostgresSearch(query, P, A) ==
    LET hit == NewestFirst({r \in P : Truthy(query) => ContainsInsensitive(r.title, query)})
    IN  Take([i \in 1..Len(hit) |-> MapToPaper("postgres", hit[i], A)], SearchLimit)

(* search({query}): $or of title, abstract and keywords, each a case-insensitive $regex; *)
(* the texts of the model hold no character that a regular expression reads specially    *)
MongoSearch(query, P, A) ==
    LET hit == NewestFirst({r \in P :
                   Truthy(query) =>
                       \/ ContainsInsensitive(r.title, query)
                       \/ \E k \in r.keywords : ContainsInsensitive(k, query)})
    IN  Take([i \in 1..Len(hit) |-> MapToPaper("mongodb", hit[i], A)], SearchLimit)

PaperSearch(v, query, P, A) ==
    IF v = "postgres" THEN PostgresSearch(query, P, A) ELSE MongoSearch(query, P, A)

PostgresNoteFindById(id, P, A, N) ==
    IF \E r \in N : r.id = id
    THEN Returned(<<MapToNote("postgres", RowOf(N, id))>>, P, A, N)
    ELSE Returned(<<>>, P, A, N)

MongoNoteFindById(id, P, A, N) ==
    IF ~Castable(id) THEN Threw("RepositoryError", P, A, N)
    ELSE IF \E r \in N : r.id = id
    THEN Returned(<<MapToNote("mongodb", RowOf(N, id))>>, P, A, N)
    ELSE Returned(<<>>, P, A, N)

NoteFindById(v, id, P, A, N) ==
    IF v = "postgres" THEN PostgresNoteFindById(id, P, A, N) ELSE MongoNoteFindById(id, P, A, N)

(* the annotation rows that a nested create makes of the given annotations *)
AnnotationRows(as, n) ==
    [i \in 1..Len(as) |->
        [id |-> <<"pa", n + 1, i>>, type |-> UpperType(as[i].type),
         pageNumber |-> as[i].pageNumber]]

(* update: annotations: { deleteMany: {}, create: data.annotations?.map(...) || [] } *)
PostgresNoteUpdate(id, data, P, A, N, n) ==
    IF ~\E r \in N : r.id = id THEN Returned(<<>>, P, A, N)
    ELSE LET old == RowOf(N, id)
             row == [old EXCEPT
                        !.content = Given(data, "content", @),
                        !.tags = Given(data, "tags", @),
                        !.annotations = IF Named(data, "annotations")
                                        THEN AnnotationRows(data.annotations, n)
                                        ELSE <<>>]
             out == Returned(<<MapToNote("postgres", row)>>, P, A, (N \ {old}) \cup {row})
         IN  IF Named(data, "annotations") /\ data.annotations # <<>> THEN Made(out) ELSE out

MongoNoteUpdate(id, data, P, A, N, n) ==
    IF ~Castable(id) THEN Threw("RepositoryError", P, A, N)
    ELSE IF ~\E r \in N : r.id = id THEN Returned(<<>>, P, A, N)
    ELSE LET old == RowOf(N, id)
             doc == [old EXCEPT !.content = Given(data, "content", @),
                                !.tags = Given(data, "tags", @)]
         IN  Returned(<<MapToNote("mongodb", doc)>>, P, A, (N \ {old}) \cup {doc})

NoteUpdate(v, id, data, P, A, N, n) ==
    IF v = "postgres" THEN PostgresNoteUpdate(id, data, P, A, N, n)
    ELSE MongoNoteUpdate(id, data, P, A, N, n)

PostgresNoteDeleteById(id, P, A, N) ==
    LET d == NoteDelete("postgres", id, N) IN ReturnedFlag(d.found, P, A, d.notes)

MongoNoteDeleteById(id, P, A, N) ==
    IF ~Castable(id) THEN Threw("RepositoryError", P, A, N)
    ELSE LET d == NoteDelete("mongodb", id, N) IN ReturnedFlag(d.found, P, A, d.notes)

NoteDeleteById(v, id, P, A, N) ==
    IF v = "postgres" THEN PostgresNoteDeleteById(id, P, A, N)
    ELSE MongoNoteDeleteById(id, P, A, N)

NoteCount(N) == Cardinality(N)

AnnotationIds(row) == {row.annotations[i].id : i \in 1..Len(row.annotations)}

Without(as, annotationId) == SelectSeq(as, LAMBDA a : a.id # annotationId)

PostgresAddAnnotation(noteId, annotation, P, A, N, n) ==
    IF ~\E r \in N : r.id = noteId THEN Threw("EntityNotFoundError", P, A, N)
    ELSE LET old == RowOf(N, noteId)
             row == [old EXCEPT !.annotations =
                        Append(@, [id |-> <<"pa", n + 1, 0>>, type |-> UpperType(annotation.type),
                                   pageNumber |-> annotation.pageNumber])]
         IN  Made(Returned(<<MapToNote("postgres", row)>>, P, A, (N \ {old}) \cup {row}))

(* removeAnnotation: a nested delete of an annotation that the note does not hold *)
(* fails the update with a message other than 'Record to update not found'       *)
PostgresRemoveAnnotation(noteId, annotationId, P, A, N) ==
    IF ~\E r \in N : r.id = noteId THEN Threw("EntityNotFoundError", P, A, N)
    ELSE LET old == RowOf(N, noteId)
             row == [old EXCEPT !.annotations = Without(@, annotationId)]
         IN  IF annotationId \notin AnnotationIds(old)
             THEN Threw("RepositoryError", P, A, N)
             ELSE Returned(<<MapToNote("postgres", row)>>, P, A, (N \ {old}) \cup {row})

(* the fields of a stored annotation overlaid with the fields that the partial names *)
Overlay(a, annotation) ==
    [a EXCEPT !.type = IF Named(annotation, "type") THEN UpperType(annotation.type) ELSE @,
              !.pageNumber = Given(annotation, "pageNumber", @)]

(* updateAnnotation: the annotation is found and updated by its own id alone, *)
(* whichever note holds it; the note is read afterwards                      *)
PostgresUpdateAnnotation(noteId, annotationId, annotation, P, A, N) ==
    IF ~\E r \in N : annotationId \in AnnotationIds(r)
    THEN Threw("EntityNotFoundError", P, A, N)
    ELSE LET N1 == {[r EXCEPT !.annotations =
                        [i \in 1..Len(@) |->
                            IF @[i].id = annotationId THEN Overlay(@[i], annotation) ELSE @[i]]] :
                    r \in N}
         IN  IF ~\E r \in N1 : r.id = noteId
             THEN Threw("EntityNotFoundError", P, A, N1)
             ELSE Returned(<<MapToNote("postgres", RowOf(N1, noteId))>>, P, A, N1)

(* the validators of AnnotationSchema that note.save() runs *)
ValidAnnotation(a) == a.type \in {"HIGHLIGHT", "COMMENT", "BOOKMARK"}

MongoAddAnnotation(noteId, annotation, P, A, N, n) ==
    IF ~Castable(noteId) THEN Threw("RepositoryError", P, A, N)
    ELSE IF ~\E r \in N : r.id = noteId THEN Threw("EntityNotFoundError", P, A, N)
    ELSE IF ~ValidAnnotation(annotation) THEN Threw("RepositoryError", P, A, N)
    ELSE LET old == RowOf(N, noteId)
             doc == [old EXCEPT !.annotations =
                        Append(@, [id |-> <<"ma", n + 1, 0>>, type |-> annotation.type,
                                   pageNumber |-> annotation.pageNumber])]
         IN  Made(Returned(<<MapToNote("mongodb", doc)>>, P, A, (N \ {old}) \cup {doc}))

(* removeAnnotation: the list is filtered and saved, whether or not it held the id *)
MongoRemoveAnnotation(noteId, annotationId, P, A, N) ==
    IF ~Castable(noteId) THEN Threw("RepositoryError", P, A, N)
    ELSE IF ~\E r \in N : r.id = noteId THEN Threw("EntityNotFoundError", P, A, N)
    ELSE LET old == RowOf(N, noteId)
             doc == [old EXCEPT !.annotations = Without(@, annotationId)]
         IN  Returned(<<MapToNote("mongodb", doc)>>, P, A, (N \ {old}) \cup {doc})

(* updateAnnotation: the element becomes { ...existingAnnotation, ...annotation } *)
MongoUpdateAnnotation(noteId, annotationId, annotation, P, A, N) ==
    IF ~Castable(noteId) THEN Threw("RepositoryError", P, A, N)
    ELSE IF ~\E r \in N : r.id = noteId THEN Threw("EntityNotFoundError", P, A, N)
    ELSE LET old == RowOf(N, noteId)
             doc == [old EXCEPT !.annotations =
                        [i \in 1..Len(@) |->
                            IF @[i].id = annotationId
                            THEN [@[i] EXCEPT !.type = Given(annotation, "type", @),
                                              !.pageNumber = Given(annotation, "pageNumber", @)]
                            ELSE @[i]]]
         IN  IF annotationId \notin AnnotationIds(old)
             THEN Threw("EntityNotFoundError", P, A, N)
             ELSE IF \E i \in 1..Len(doc.annotations) : ~ValidAnnotation(doc.annotations[i])
             THEN Threw("RepositoryError", P, A, N)
             ELSE Returned(<<MapToNote("mongodb", doc)>>, P, A, (N \ {old}) \cup {doc})

AddAnnotation(v, noteId, annotation, P, A, N, n) ==
    IF v = "postgres" THEN PostgresAddAnnotation(noteId, annotation, P, A, N, n)
    ELSE MongoAddAnnotation(noteId, annotation, P, A, N, n)

RemoveAnnotation(v, noteId, annotationId, P, A, N) ==
    IF v = "postgres" THEN PostgresRemoveAnnotation(noteId, annotationId, P, A, N)
    ELSE MongoRemoveAnnotation(noteId, annotationId, P, A, N)

UpdateAnnotation(v, noteId, annotationId, annotation, P, A, N) ==
    IF v = "postgres" THEN PostgresUpdateAnnotation(noteId, annotationId, annotation, P, A, N)
    ELSE MongoUpdateAnnotation(noteId, annotationId, annotation, P, A, N)

----------------------------------------------------------------------------
(* RepositoryFactory *)

NewFactory ==
    [databaseType |-> "hybrid", paperRepository |-> Null, noteRepository |-> Null,
     citationRepository |-> Null, prisma |-> FALSE]

(* initialize(), up to its first await: the selector is read and stored *)
ReadSelector(e) == IF e = Unset THEN "hybrid" ELSE e

(* a faulty variant of the branch of initialize(): every selector takes the hybrid branch *)
InitBranchAlwaysHybrid(dbType) == "hybrid"

InitBranch(dbType) == IF dbType \in Engines THEN dbType ELSE "hybrid"

InitializeBegin(f, e) == [f EXCEPT !.databaseType = ReadSelector(e)]

(* initializePostgres / initializeMongoDB / initializeHybrid of the chosen      *)
(* branch; failAt names the connect() call that throws, "none" when none does. *)
InitializeEnd(f, c, branch, failAt) ==
    IF branch = "postgres"
    THEN IF failAt = "postgres"
         THEN [threw |-> TRUE, factory |-> f, connected |-> c]
         ELSE [threw |-> FALSE,
               factory |-> [f EXCEPT !.prisma = TRUE, !.paperRepository = "postgres",
                                     !.noteRepository = "postgres"],
               connected |-> [c EXCEPT !["postgres"] = TRUE]]
    ELSE IF branch = "mongodb"
    THEN IF failAt = "mongodb"
         THEN [threw |-> TRUE, factory |-> f, connected |-> c]
         ELSE [threw |-> FALSE,
               factory |-> [f EXCEPT !.paperRepository = "mongodb", !.noteRepository = "mongodb"],
               connected |-> [c EXCEPT !["mongodb"] = TRUE]]
    ELSE IF failAt = "postgres"
         THEN [threw |-> TRUE, factory |-> f, connected |-> c]
         ELSE IF failAt = "mongodb"
         THEN [threw |-> TRUE, factory |-> f, connected |-> [c EXCEPT !["postgres"] = TRUE]]
         ELSE [threw |-> FALSE,
               factory |-> [f EXCEPT !.prisma = TRUE, !.paperRepository = "postgres",
                                     !.noteRepository = "mongodb"],
               connected |-> [c EXCEPT !["postgres"] = TRUE, !["mongodb"] = TRUE]]

NotInitialized == "throw: Repository factory not initialized"

(* a faulty variant of getPaperRepository: the field is returned unchecked *)
GetPaperRepositoryUnchecked(f) == f.paperRepository

GetPaperRepository(f) == IF f.paperRepository = Null THEN NotInitialized ELSE f.paperRepository

GetNoteRepository(f) == IF f.noteRepository = Null THEN NotInitialized ELSE f.noteRepository

NotImplemented == "throw: Citation repository not implemented"

(* a faulty variant of getCitationRepository: the field is returned unchecked *)
GetCitationRepositoryUnchecked(f) == f.citationRepository

GetCitationRepository(f) ==
    IF f.citationRepository = Null THEN NotImplemented ELSE f.citationRepository

GetDatabaseType(f) == f.databaseType

(* cleanup(): the connections that the stored selector names are disconnected *)
Cleanup(f, c) ==
    [e \in Engines |->
        IF e = "postgres" /\ f.databaseType \in {"postgres", "hybrid"} THEN FALSE
        ELSE IF e = "mongodb" /\ f.databaseType \in {"mongodb", "hybrid"} THEN FALSE
        ELSE c[e]]

(* process.env[k] = v stores String(v) *)
EnvString(v) == IF v = Unset THEN "undefined" ELSE v

----------------------------------------------------------------------------
(* Request bodies *)

Doe(aff) == [name |-> "Doe", affiliation |-> aff]

PaperInputs ==
    { [title |-> <<"A", "b">>, doi |-> <<"d", "1">>, keywords |-> {<<"m">>},
       journal |-> <<"j">>, conference |-> <<"c">>, authors |-> <<Doe(<<"M">>)>>],
      [title |-> <<"a", "b">>, doi |-> Absent, keywords |-> {<<"m">>},
       journal |-> Absent, conference |-> Absent, authors |-> <<Doe(<<"C">>)>>],
      [title |-> <<"A", "b">>, doi |-> Absent, keywords |-> {<<"A", "b">>, <<"x", "A", "b">>},
       journal |-> Absent, conference |-> Absent, authors |-> <<>>],
      [title |-> <<"b">>, doi |-> <<"d", "1">>, keywords |-> {<<"b">>},
       journal |-> <<"j">>, conference |-> Absent, authors |-> <<>>] }

NoteBodies ==
    { [content |-> <<"a", " ", "b">>, tags |-> <<1, 2>>,
       annotations |-> <<[type |-> "highlight", pageNumber |-> 1]>>],
      [content |-> <<"a", " ", "b">>, tags |-> <<2, 1>>, annotations |-> <<>>],
      [content |-> <<"A", " ", "b">>, tags |-> <<1, 2>>, annotations |-> <<>>] }

KnownPaperIds == {r.id : r \in papers["postgres"]} \cup {r.id : r \in papers["mongodb"]}

NoteInputs ==
    {[paperId |-> pid, content |-> b.content, tags |-> b.tags, annotations |-> b.annotations] :
        pid \in {Absent} \cup KnownPaperIds, b \in NoteBodies}

FailChoices == IF faults < MaxFaults THEN {FALSE, TRUE} ELSE {FALSE}

ConnectFailChoices(branch) ==
    IF faults < MaxFaults
    THEN {"none"} \cup (IF branch = "hybrid" THEN Engines ELSE {branch})
    ELSE {"none"}

----------------------------------------------------------------------------
(* The migrate handler's local variables *)

IdleMig ==
    [pc |-> "idle", from |-> Null, to |-> Null, originalType |-> Unset, branch |-> Null,
     sourcePaperRepo |-> Null, sourceNoteRepo |-> Null,
     targetPaperRepo |-> Null, targetNoteRepo |-> Null,
     deletePaperRepo |-> Null, deleteNoteRepo |-> Null,
     sourcePapers |-> <<>>, sourceNotes |-> <<>>, i |-> 0,
     migratedPapers |-> 0, skippedPapers |-> 0, migratedNotes |-> 0, skippedNotes |-> 0,
     paperLog |-> <<>>, noteLog |-> <<>>, deleteLog |-> <<>>,
     targetPapers |-> 0, targetNotes |-> 0, response |-> Null, moved |-> FALSE,
     failedAt |-> Null, before |-> NewFactory]

NoRun == [from |-> Null, to |-> Null, response |-> Null, moved |-> FALSE,
          targetPapers |-> 0, targetNotes |-> 0]

NoCall == [op |-> "none"]

(* no citation is stored *)
NoCitations == [e \in Engines |-> {}]

(* the calls of PostgresPaperRepository.create that may be open at once *)
Calls == {1, 2}

IdleCreate == [pc |-> "idle", data |-> <<>>, err |-> "none"]

NoCreates == [c \in Calls |-> IdleCreate]

IdleOther == [pc |-> "idle", branch |-> Null]

(* The stats handler's local variables *)
IdleStats ==
    [pc |-> "idle", type |-> Null, originalType |-> Unset, branch |-> Null,
     papers |-> 0, notes |-> 0, response |-> Null, before |-> NewFactory]

----------------------------------------------------------------------------
Init ==
    /\ env \in {Unset, "postgres"}
    /\ factory = NewFactory
    /\ connected = [e \in Engines |-> FALSE]
    /\ papers = [e \in Engines |-> {}]
    /\ authors = {}
    /\ notes = [e \in Engines |-> {}]
    /\ nextId = [e \in Engines |-> 0]
    /\ server = "down"
    /\ mig = IdleMig
    /\ lastRun = NoRun
    /\ runs = 0
    /\ apiCreates = 0
    /\ faults = 0
    /\ ret = NoCall
    /\ stats = IdleStats
    /\ citations = NoCitations
    /\ creating = NoCreates
    /\ other = IdleOther

(* startServer(): initialize(), then app.listen; process.exit(1) when it throws *)
StartServer ==
    /\ server = "down"
    /\ factory' = InitializeBegin(factory, env)
    /\ server' = "starting"
    /\ UNCHANGED <<env, connected, papers, authors, notes, nextId, mig, lastRun, runs,
                   apiCreates, faults>>
    /\ UNCHANGED <<ret, stats, citations, creating, other>>

ServerInitialized ==
    /\ server = "starting"
    /\ \E failAt \in ConnectFailChoices(InitBranch(factory.databaseType)) :
          LET r == InitializeEnd(factory, connected, InitBranch(factory.databaseType), failAt)
          IN  /\ factory' = r.factory
              /\ connected' = r.connected
              /\ server' = IF r.threw THEN "exited" ELSE "listening"
              /\ faults' = IF r.threw THEN faults + 1 ELSE faults
    /\ UNCHANGED <<env, papers, authors, notes, nextId, mig, lastRun, runs, apiCreates>>
    /\ UNCHANGED <<ret, stats, citations, creating, other>>

(* the server listens and no migrate request is in progress: requests are served *)
(* one at a time                                                               *)
Serving == server = "listening" /\ mig.pc = "idle"

(* POST /api/papers *)
ApiCreatePaper(data) ==
    /\ Serving
    /\ apiCreates < MaxApiCreates
    /\ LET v == GetPaperRepository(factory)
           r == PaperCreate(v, data, papers[v], authors, nextId[v])
       IN  /\ r.ok
           /\ papers' = [papers EXCEPT ![v] = r.papers]
           /\ authors' = r.authors
           /\ nextId' = [nextId EXCEPT ![v] = @ + 1]
    /\ apiCreates' = apiCreates + 1
    /\ lastRun' = NoRun
    /\ UNCHANGED <<env, factory, connected, notes, server, mig, runs, faults>>
    /\ UNCHANGED <<ret, stats, citations, creating, other>>

(* POST /api/notes *)
ApiCreateNote(data) ==
    /\ Serving
    /\ apiCreates < MaxApiCreates
    /\ LET v == GetNoteRepository(factory)
           r == NoteCreate(v, data, notes[v], papers["postgres"], nextId[v])
       IN  /\ r.ok
           /\ notes' = [notes EXCEPT ![v] = r.notes]
           /\ nextId' = [nextId EXCEPT ![v] = @ + 1]
    /\ apiCreates' = apiCreates + 1
    /\ lastRun' = NoRun
    /\ UNCHANGED <<env, factory, connected, papers, authors, server, mig, runs, faults>>
    /\ UNCHANGED <<ret, stats, citations, creating, other>>

(* POST /api/database/switch *)
Switch(databaseType) ==
    /\ Serving
    /\ env' = EnvString(databaseType)
    /\ \E failAt \in ConnectFailChoices(InitBranch(databaseType)) :
          LET r == InitializeEnd(InitializeBegin(factory, env'), connected,
                                 InitBranch(databaseType), failAt)
          IN  /\ factory' = r.factory
              /\ connected' = r.connected
              /\ faults' = IF r.threw THEN faults + 1 ELSE faults
    /\ lastRun' = NoRun
    /\ UNCHANGED <<papers, authors, notes, nextId, server, mig, runs, apiCreates>>
    /\ UNCHANGED <<ret, stats, citations, creating, other>>

(* SIGTERM / SIGINT: cleanup(), then process.exit(0) *)
Shutdown ==
    /\ Serving
    /\ connected' = Cleanup(factory, connected)
    /\ server' = "stopped"
    /\ UNCHANGED <<env, factory, papers, authors, notes, nextId, mig, lastRun, runs, apiCreates,
                   faults, ret, stats, citations, creating, other>>

----------------------------------------------------------------------------
(* POST /api/database/migrate, one action per awaited phase *)

(* a faulty variant of the create body: the DOI is left out *)
PaperCreateBodyWithoutDoi(paper) ==
    [title |-> paper.title, authors |-> paper.authors, keywords |-> paper.keywords,
     journal |-> paper.journal, doi |-> Absent, conference |-> Absent]

(* the body passed to targetPaperRepo.create: the listed fields of the source paper *)
PaperCreateBody(paper) ==
    [title |-> paper.title, authors |-> paper.authors, keywords |-> paper.keywords,
     journal |-> paper.journal, doi |-> paper.doi, conference |-> Absent]

NoteCreateBody(note) ==
    [paperId |-> note.paperId, content |-> note.content, tags |-> note.tags,
     annotations |-> note.annotations]

(* existingPaper of the paper loop: empty when the paper is not taken for a duplicate *)
ExistingPaper(v, paper, P, A) ==
    LET byDoi == IF Truthy(paper.doi) THEN PaperFindByDoi(v, paper.doi, P, A) ELSE <<>>
    IN  IF byDoi = <<>> /\ Truthy(paper.title)
        THEN LET papersByTitle == PaperFindByKeyword(v, paper.title, P, A)
                 hits == {k \in 1..Len(papersByTitle) :
                             ToLowerCase(papersByTitle[k].title) = ToLowerCase(paper.title)}
             IN  IF hits = {} THEN <<>>
                 ELSE <<papersByTitle[CHOOSE k \in hits : \A j \in hits : k <= j]>>
        ELSE byDoi

(* similarNote of the note loop *)
SimilarNoteExists(v, note, N) ==
    LET existingNotes ==
            IF note.paperId # Absent
            THEN NoteFindByPaperId(v, note.paperId, N)
            ELSE NoteFindByContent(v, Substring(note.content, 0, ContentPrefixLen), N)
    IN  \E k \in 1..Len(existingNotes) :
            /\ existingNotes[k].content = note.content
            /\ SortTags(existingNotes[k].tags) = SortTags(note.tags)

(* a faulty variant of the step 6 test: the notes are left out *)
ReconciledPapersOnly(m) == m.migratedPapers + m.skippedPapers = Len(m.sourcePapers)

(* the test of step 6 that admits the source deletion *)
Reconciled(m) ==
    /\ m.migratedPapers + m.skippedPapers = Len(m.sourcePapers)
    /\ m.migratedNotes + m.skippedNotes = Len(m.sourceNotes)

(* a faulty variant of isCompleteMigration: the notes are left out *)
IsCompleteMigrationPapersOnly(m) == m.migratedPapers + m.skippedPapers = Len(m.sourcePapers)

(* isCompleteMigration of the response *)
IsCompleteMigration(m) ==
    /\ m.migratedPapers + m.skippedPapers = Len(m.sourcePapers)
    /\ m.migratedNotes + m.skippedNotes = Len(m.sourceNotes)

(* a faulty variant of the paper loop's catch block: the exception leaves the handler *)
RethrownInPaperLoop(next) ==
    [next EXCEPT !.pc = "done", !.response = "error", !.failedAt = "papers"]

(* the catch blocks inside the loops: the failure is logged and the loop goes on *)
CaughtInPaperLoop(next) == [next EXCEPT !.paperLog = Append(@, "failed")]

CaughtInNoteLoop(next) == [next EXCEPT !.noteLog = Append(@, "failed")]

CaughtInDeleteLoop(next) == [next EXCEPT !.deleteLog = Append(@, "failed")]

(* position after the paper loop, the note loop and the delete loops *)
AfterTargetReady(m) ==
    IF Len(m.sourcePapers) > 0 THEN "papers"
    ELSE IF Len(m.sourceNotes) > 0 THEN "notes" ELSE "verify"

AfterPaper(m, k) ==
    IF k < Len(m.sourcePapers) THEN "papers"
    ELSE IF Len(m.sourceNotes) > 0 THEN "notes" ELSE "verify"

AfterNote(m, k) == IF k < Len(m.sourceNotes) THEN "notes" ELSE "verify"

MigrateBegin(fromDatabase, toDatabase) ==
    /\ Serving
    /\ runs < MaxRuns
    /\ fromDatabase # toDatabase
    /\ env' = EnvString(fromDatabase)
    /\ factory' = InitializeBegin(factory, env')
    /\ mig' = [IdleMig EXCEPT !.pc = "init_source", !.from = fromDatabase, !.to = toDatabase,
                              !.originalType = env, !.branch = InitBranch(fromDatabase),
                              !.before = factory]
    /\ runs' = runs + 1
    /\ UNCHANGED <<connected, papers, authors, notes, nextId, server, lastRun, apiCreates, faults>>
    /\ UNCHANGED <<ret, stats, citations, creating, other>>

(* an awaited call threw outside the per-record try blocks: the 500 response *)
Failed(m) == [m EXCEPT !.pc = "done", !.response = "error", !.failedAt = m.pc]

MigrateSourceReady ==
    /\ mig.pc = "init_source"
    /\ \E failAt \in ConnectFailChoices(mig.branch) :
          LET r == InitializeEnd(factory, connected, mig.branch, failAt)
          IN  /\ factory' = r.factory
              /\ connected' = r.connected
              /\ faults' = IF r.threw THEN faults + 1 ELSE faults
              /\ mig' = IF r.threw THEN Failed(mig)
                        ELSE [mig EXCEPT !.pc = "read_source",
                                         !.sourcePaperRepo = GetPaperRepository(r.factory),
                                         !.sourceNoteRepo = GetNoteRepository(r.factory)]
    /\ UNCHANGED <<env, papers, authors, notes, nextId, server, lastRun, runs, apiCreates>>
    /\ UNCHANGED <<ret, stats, citations, creating, other>>

MigrateReadSource ==
    /\ mig.pc = "read_source"
    /\ \E fail \in FailChoices :
          IF fail
          THEN /\ mig' = Failed(mig)
               /\ faults' = faults + 1
               /\ UNCHANGED <<env, factory>>
          ELSE /\ env' = EnvString(mig.to)
               /\ factory' = InitializeBegin(factory, env')
               /\ mig' = [mig EXCEPT
                     !.pc = "init_target",
                     !.branch = InitBranch(mig.to),
                     !.sourcePapers = PaperFindAll(mig.sourcePaperRepo, FindAllLimit,
                                                   papers[mig.sourcePaperRepo], authors),
                     !.sourceNotes = NoteFindAll(mig.sourceNoteRepo, FindAllLimit,
                                                 notes[mig.sourceNoteRepo])]
               /\ UNCHANGED faults
    /\ UNCHANGED <<connected, papers, authors, notes, nextId, server, lastRun, runs, apiCreates>>
    /\ UNCHANGED <<ret, stats, citations, creating, other>>

MigrateTargetReady ==
    /\ mig.pc = "init_target"
    /\ \E failAt \in ConnectFailChoices(mig.branch) :
          LET r == InitializeEnd(factory, connected, mig.branch, failAt)
          IN  /\ factory' = r.factory
              /\ connected' = r.connected
              /\ faults' = IF r.threw THEN faults + 1 ELSE faults
              /\ mig' = IF r.threw THEN Failed(mig)
                        ELSE [mig EXCEPT !.pc = AfterTargetReady(mig), !.i = 1,
                                         !.targetPaperRepo = GetPaperRepository(r.factory),
                                         !.targetNoteRepo = GetNoteRepository(r.factory)]
    /\ UNCHANGED <<env, papers, authors, notes, nextId, server, lastRun, runs, apiCreates>>
    /\ UNCHANGED <<ret, stats, citations, creating, other>>

(* one iteration of the paper loop *)
MigratePaper ==
    /\ mig.pc = "papers"
    /\ LET v == mig.targetPaperRepo
           paper == mig.sourcePapers[mig.i]
           next == [mig EXCEPT !.pc = AfterPaper(mig, mig.i),
                               !.i = IF mig.i < Len(mig.sourcePapers) THEN mig.i + 1 ELSE 1]
       IN  \E fail \in FailChoices :
             IF fail
             THEN /\ mig' = CaughtInPaperLoop(next)
                  /\ faults' = faults + 1
                  /\ UNCHANGED <<papers, authors, nextId>>
             ELSE IF ExistingPaper(v, paper, papers[v], authors) # <<>>
             THEN /\ mig' = [next EXCEPT !.skippedPapers = @ + 1,
                                         !.paperLog = Append(@, "skipped")]
                  /\ UNCHANGED <<papers, authors, nextId, faults>>
             ELSE LET r == PaperCreate(v, PaperCreateBody(paper), papers[v], authors, nextId[v])
                  IN  IF r.ok
                      THEN /\ papers' = [papers EXCEPT ![v] = r.papers]
                           /\ authors' = r.authors
                           /\ nextId' = [nextId EXCEPT ![v] = @ + 1]
                           /\ mig' = [next EXCEPT !.migratedPapers = @ + 1,
                                                  !.paperLog = Append(@, "migrated")]
                           /\ UNCHANGED faults
                      ELSE /\ mig' = CaughtInPaperLoop(next)
                           /\ UNCHANGED <<papers, authors, nextId, faults>>
    /\ UNCHANGED <<env, factory, connected, notes, server, lastRun, runs, apiCreates>>
    /\ UNCHANGED <<ret, stats, citations, creating, other>>

(* one iteration of the note loop *)
MigrateNote ==
    /\ mig.pc = "notes"
    /\ LET v == mig.targetNoteRepo
           note == mig.sourceNotes[mig.i]
           next == [mig EXCEPT !.pc = AfterNote(mig, mig.i),
                               !.i = IF mig.i < Len(mig.sourceNotes) THEN mig.i + 1 ELSE 1]
       IN  \E fail \in FailChoices :
             IF fail
             THEN /\ mig' = CaughtInNoteLoop(next)
                  /\ faults' = faults + 1
                  /\ UNCHANGED <<notes, nextId>>
             ELSE IF SimilarNoteExists(v, note, notes[v])
             THEN /\ mig' = [next EXCEPT !.skippedNotes = @ + 1,
                                         !.noteLog = Append(@, "skipped")]
                  /\ UNCHANGED <<notes, nextId, faults>>
             ELSE LET r == NoteCreate(v, NoteCreateBody(note), notes[v], papers["postgres"],
                                      nextId[v])
                  IN  IF r.ok
                      THEN /\ notes' = [notes EXCEPT ![v] = r.notes]
                           /\ nextId' = [nextId EXCEPT ![v] = @ + 1]
                           /\ mig' = [next EXCEPT !.migratedNotes = @ + 1,
                                                  !.noteLog = Append(@, "migrated")]
                           /\ UNCHANGED faults
                      ELSE /\ mig' = CaughtInNoteLoop(next)
                           /\ UNCHANGED <<notes, nextId, faults>>
    /\ UNCHANGED <<env, factory, connected, papers, authors, server, lastRun, runs, apiCreates>>
    /\ UNCHANGED <<ret, stats, citations, creating, other>>

(* step 5 and the reconciliation test of step 6; then the initialize() of      *)
(* step 6 (back to the source) or of step 7 (back to the original selector)   *)
MigrateVerify ==
    /\ mig.pc = "verify"
    /\ \E fail \in FailChoices :
          IF fail
          THEN /\ mig' = Failed(mig)
               /\ faults' = faults + 1
               /\ UNCHANGED <<env, factory>>
          ELSE LET tp == Len(PaperFindAll(mig.targetPaperRepo, FindAllLimit,
                                          papers[mig.targetPaperRepo], authors))
                   tn == Len(NoteFindAll(mig.targetNoteRepo, FindAllLimit,
                                         notes[mig.targetNoteRepo]))
                   sel == IF Reconciled(mig) THEN mig.from ELSE mig.originalType
               IN  /\ env' = EnvString(sel)
                   /\ factory' = InitializeBegin(factory, env')
                   /\ mig' = [mig EXCEPT
                         !.pc = IF Reconciled(mig) THEN "init_delete" ELSE "init_restore",
                         !.branch = InitBranch(ReadSelector(env')),
                         !.targetPapers = tp, !.targetNotes = tn]
                   /\ UNCHANGED faults
    /\ UNCHANGED <<connected, papers, authors, notes, nextId, server, lastRun, runs, apiCreates>>
    /\ UNCHANGED <<ret, stats, citations, creating, other>>

AfterDeleteReady(m) ==
    IF Len(m.sourcePapers) > 0 THEN "delete_papers"
    ELSE IF Len(m.sourceNotes) > 0 THEN "delete_notes" ELSE "restore"

AfterDeletePaper(m, k) ==
    IF k < Len(m.sourcePapers) THEN "delete_papers"
    ELSE IF Len(m.sourceNotes) > 0 THEN "delete_notes" ELSE "restore"

AfterDeleteNote(m, k) == IF k < Len(m.sourceNotes) THEN "delete_notes" ELSE "restore"

MigrateDeleteReady ==
    /\ mig.pc = "init_delete"
    /\ \E failAt \in ConnectFailChoices(mig.branch) :
          LET r == InitializeEnd(factory, connected, mig.branch, failAt)
          IN  /\ factory' = r.factory
              /\ connected' = r.connected
              /\ faults' = IF r.threw THEN faults + 1 ELSE faults
              /\ mig' = IF r.threw THEN Failed(mig)
                        ELSE [mig EXCEPT !.pc = AfterDeleteReady(mig), !.i = 1,
                                         !.deletePaperRepo = GetPaperRepository(r.factory),
                                         !.deleteNoteRepo = GetNoteRepository(r.factory)]
    /\ UNCHANGED <<env, papers, authors, notes, nextId, server, lastRun, runs, apiCreates>>
    /\ UNCHANGED <<ret, stats, citations, creating, other>>

(* one iteration of the "delete all papers from source" loop *)
MigrateDeletePaper ==
    /\ mig.pc = "delete_papers"
    /\ LET v == mig.deletePaperRepo
           next == [mig EXCEPT !.pc = AfterDeletePaper(mig, mig.i),
                               !.i = IF mig.i < Len(mig.sourcePapers) THEN mig.i + 1 ELSE 1]
       IN  \E fail \in FailChoices :
             IF fail
             THEN /\ mig' = CaughtInDeleteLoop(next)
                  /\ faults' = faults + 1
                  /\ UNCHANGED <<papers, notes, citations>>
             ELSE LET r == PaperDelete(v, mig.sourcePapers[mig.i].id, papers[v], notes[v])
                  IN  /\ papers' = [papers EXCEPT ![v] = r.papers]
                      /\ notes' = [notes EXCEPT ![v] = r.notes]
                      /\ citations' = [citations EXCEPT ![v] = CitationsLeft(v, @, r.papers)]
                      /\ mig' = next
                      /\ UNCHANGED faults
    /\ UNCHANGED <<env, factory, connected, authors, nextId, server, lastRun, runs, apiCreates>>
    /\ UNCHANGED <<ret, stats, creating, other>>

(* one iteration of the "delete all notes from source" loop *)
MigrateDeleteNote ==
    /\ mig.pc = "delete_notes"
    /\ LET v == mig.deleteNoteRepo
           next == [mig EXCEPT !.pc = AfterDeleteNote(mig, mig.i),
                               !.i = IF mig.i < Len(mig.sourceNotes) THEN mig.i + 1 ELSE 1]
       IN  \E fail \in FailChoices :
             IF fail
             THEN /\ mig' = CaughtInDeleteLoop(next)
                  /\ faults' = faults + 1
                  /\ UNCHANGED notes
             ELSE /\ notes' = [notes EXCEPT ![v] = NoteDelete(v, mig.sourceNotes[mig.i].id, @).notes]
                  /\ mig' = next
                  /\ UNCHANGED faults
    /\ UNCHANGED <<env, factory, connected, papers, authors, nextId, server, lastRun, runs,
                   apiCreates>>
    /\ UNCHANGED <<ret, stats, citations, creating, other>>

(* step 7 after the delete loops: the selector is written back and initialize() called *)
MigrateRestore ==
    /\ mig.pc = "restore"
    /\ env' = EnvString(mig.originalType)
    /\ factory' = InitializeBegin(factory, env')
    /\ mig' = [mig EXCEPT !.pc = "init_restore", !.branch = InitBranch(ReadSelector(env'))]
    /\ UNCHANGED <<connected, papers, authors, notes, nextId, server, lastRun, runs, apiCreates,
                   faults>>
    /\ UNCHANGED <<ret, stats, citations, creating, other>>

(* the last initialize() returns and the response is sent *)
MigrateRespond ==
    /\ mig.pc = "init_restore"
    /\ \E failAt \in ConnectFailChoices(mig.branch) :
          LET r == InitializeEnd(factory, connected, mig.branch, failAt)
          IN  /\ factory' = r.factory
              /\ connected' = r.connected
              /\ faults' = IF r.threw THEN faults + 1 ELSE faults
              /\ mig' = IF r.threw THEN Failed(mig)
                        ELSE [mig EXCEPT !.pc = "done", !.response = "success",
                                         !.moved = IsCompleteMigration(mig)]
    /\ UNCHANGED <<env, papers, authors, notes, nextId, server, lastRun, runs, apiCreates>>
    /\ UNCHANGED <<ret, stats, citations, creating, other>>

(* the handler has returned; the next request may be served *)
MigrateReturn ==
    /\ mig.pc = "done"
    /\ lastRun' = [from |-> mig.from, to |-> mig.to, response |-> mig.response,
                   moved |-> mig.moved,
                   targetPapers |-> Cardinality(papers[mig.to]),
                   targetNotes |-> Cardinality(notes[mig.to])]
    /\ mig' = IdleMig
    /\ UNCHANGED <<env, factory, connected, papers, authors, notes, nextId, server, runs,
                   apiCreates, faults>>
    /\ UNCHANGED <<ret, stats, citations, creating, other>>

Next ==
    \/ StartServer
    \/ ServerInitialized
    \/ \E data \in PaperInputs : ApiCreatePaper(data)
    \/ \E data \in NoteInputs : ApiCreateNote(data)
    \/ \E t \in {"postgres", "mongodb", "hybrid"} : Switch(t)
    \/ \E f \in Engines, t \in Engines : MigrateBegin(f, t)
    \/ MigrateSourceReady
    \/ MigrateReadSource
    \/ MigrateTargetReady
    \/ MigratePaper
    \/ MigrateNote
    \/ MigrateVerify
    \/ MigrateDeleteReady
    \/ MigrateDeletePaper
    \/ MigrateDeleteNote
    \/ MigrateRestore
    \/ MigrateRespond
    \/ MigrateReturn
    \/ Shutdown

(* paperRepository.addCitation(sourcePaperId, targetPaperId) on the repository *)
(* the factory hands out, between two requests                                 *)
MaxCitations == 1

AddCitation(sourcePaperId, targetPaperId) ==
    /\ Serving
    /\ mig.pc = "idle"
    /\ Cardinality(citations["postgres"]) + Cardinality(citations["mongodb"]) < MaxCitations
    /\ LET v == GetPaperRepository(factory)
           r == PaperAddCitation(v, sourcePaperId, targetPaperId, citations[v], papers[v])
       IN  /\ v \in Engines
           /\ citations' = IF r.ok THEN [citations EXCEPT ![v] = r.citations] ELSE citations
    /\ UNCHANGED <<env, factory, connected, papers, authors, notes, nextId, server, mig, lastRun,
                   runs, apiCreates, faults, ret, stats, creating, other>>

Spec == Init /\ [][Next]_vars

----------------------------------------------------------------------------
(* The repositories called directly, as the repository test suites call them: *)
(* both engines are connected and empty, no server runs, and every step is    *)
(* one call on the paper or the note repository of one storage variant.       *)

MaxRepoIds == 2      \* ids generated by direct repository calls

NoId == <<"none", 0>>
NonExistentId == <<"non-existent-id", 0>>

PaperArguments ==
    { [title |-> <<"A", "b">>, doi |-> <<"d", "1">>, keywords |-> {<<"m">>},
       journal |-> <<"j">>, conference |-> Absent, authors |-> <<Doe(<<"M">>)>>],
      [title |-> <<"b">>, doi |-> <<"d", "1">>, keywords |-> {<<"b">>},
       journal |-> Absent, conference |-> Absent, authors |-> <<Doe(<<"C">>)>>],
      [title |-> <<"c">>, doi |-> Empty, keywords |-> {<<"m">>},
       journal |-> Absent, conference |-> Absent, authors |-> <<>>] }

PaperPartials ==
    { [title |-> <<"c">>],
      [doi |-> <<"d", "1">>],
      [journal |-> <<"k">>, authors |-> <<>>] }

NoteArguments(v) ==
    {[paperId |-> pid, content |-> <<"a">>, tags |-> <<1>>, annotations |-> as] :
        pid \in {Absent} \cup {r.id : r \in papers[v]},
        as \in {<<>>, <<[type |-> "highlight", pageNumber |-> 1]>>}}

NotePartials ==
    { [content |-> <<"b">>],
      [tags |-> <<2>>],
      [content |-> <<"b">>, annotations |-> <<[type |-> "comment", pageNumber |-> 2]>>] }

AnnotationArguments ==
    { [type |-> "highlight", pageNumber |-> 1], [type |-> "COMMENT", pageNumber |-> 1] }

AnnotationPartials == { [pageNumber |-> 2], [type |-> "comment"] }

PaperIdArguments(v) == {r.id : r \in papers[v]} \cup {NonExistentId, MgId(0)}

NoteIdArguments(v) == {r.id : r \in notes[v]} \cup {NonExistentId, MgId(0)}

AnnotationIdArguments(v) == UNION {AnnotationIds(r) : r \in notes[v]} \cup {NoId}

RepoInit ==
    /\ env = Unset
    /\ factory = NewFactory
    /\ connected = [e \in Engines |-> TRUE]
    /\ papers = [e \in Engines |-> {}]
    /\ authors = {}
    /\ notes = [e \in Engines |-> {}]
    /\ nextId = [e \in Engines |-> 0]
    /\ server = "down"
    /\ mig = IdleMig
    /\ lastRun = NoRun
    /\ runs = 0
    /\ apiCreates = 0
    /\ faults = 0
    /\ ret = NoCall
    /\ stats = IdleStats
    /\ citations = NoCitations
    /\ creating = NoCreates
    /\ other = IdleOther

CanMakeId == nextId["postgres"] + nextId["mongodb"] < MaxRepoIds

(* the call op(id, annotationId, data) on the repositories of variant v ended in outcome *)
Called(op, v, id, annotationId, data, outcome) ==
    /\ papers' = [papers EXCEPT ![v] = outcome.papers]
    /\ authors' = IF v = "postgres" THEN outcome.authors ELSE authors
    /\ notes' = [notes EXCEPT ![v] = outcome.notes]
    /\ nextId' = [nextId EXCEPT ![v] = @ + outcome.made]
    /\ ret' = [op |-> op, variant |-> v, id |-> id, annotationId |-> annotationId,
               data |-> data, err |-> outcome.err, val |-> outcome.val, found |-> outcome.found]
    /\ citations' = [citations EXCEPT ![v] = CitationsLeft(v, @, outcome.papers)]
    /\ UNCHANGED <<env, factory, connected, server, mig, lastRun, runs, apiCreates, faults,
                   stats, creating, other>>

NoData == [none |-> TRUE]

RepoCreatePaper(v, data) ==
    /\ CanMakeId
    /\ LET r == PaperCreate(v, data, papers[v], authors, nextId[v])
           outcome ==
               IF r.ok
               THEN Made(Returned(<<MapToPaper(v, RowOf(r.papers, r.id), r.authors)>>,
                                  r.papers, r.authors, notes[v]))
               ELSE Threw(r.err, papers[v], authors, notes[v])
       IN  Called("createPaper", v, NoId, NoId, data, outcome)

RepoCreateNote(v, data) ==
    /\ CanMakeId
    /\ LET r == NoteCreate(v, data, notes[v], papers["postgres"], nextId[v])
           outcome ==
               IF r.ok
               THEN Made(Returned(<<MapToNote(v, RowOf(r.notes, r.id))>>,
                                  papers[v], authors, r.notes))
               ELSE Threw(r.err, papers[v], authors, notes[v])
       IN  Called("createNote", v, NoId, NoId, data, outcome)

RepoFindPaper(v, id) ==
    Called("findPaper", v, id, NoId, NoData, PaperFindById(v, id, papers[v], authors, notes[v]))

RepoUpdatePaper(v, id, data) ==
    Called("updatePaper", v, id, NoId, data,
           PaperUpdate(v, id, data, papers[v], authors, notes[v]))

RepoDeletePaper(v, id) ==
    Called("deletePaper", v, id, NoId, NoData,
           PaperDeleteById(v, id, papers[v], authors, notes[v]))

Queries == {<<"m">>, <<"B">>}

RepoSearch(v, query) ==
    Called("search", v, NoId, NoId, [query |-> query],
           Returned(PaperSearch(v, query, papers[v], authors), papers[v], authors, notes[v]))

RepoFindNote(v, id) ==
    Called("findNote", v, id, NoId, NoData, NoteFindById(v, id, papers[v], authors, notes[v]))

RepoUpdateNote(v, id, data) ==
    /\ Named(data, "annotations") => CanMakeId
    /\ Called("updateNote", v, id, NoId, data,
              NoteUpdate(v, id, data, papers[v], authors, notes[v], nextId[v]))

RepoDeleteNote(v, id) ==
    Called("deleteNote", v, id, NoId, NoData,
           NoteDeleteById(v, id, papers[v], authors, notes[v]))

RepoAddAnnotation(v, noteId, annotation) ==
    /\ CanMakeId
    /\ Called("addAnnotation", v, noteId, NoId, annotation,
              AddAnnotation(v, noteId, annotation, papers[v], authors, notes[v], nextId[v]))

RepoRemoveAnnotation(v, noteId, annotationId) ==
    Called("removeAnnotation", v, noteId, annotationId, NoData,
           RemoveAnnotation(v, noteId, annotationId, papers[v], authors, notes[v]))

RepoUpdateAnnotation(v, noteId, annotationId, annotation) ==
    Called("updateAnnotation", v, noteId, annotationId, annotation,
           UpdateAnnotation(v, noteId, annotationId, annotation, papers[v], authors, notes[v]))

RepoNext ==
    \/ \E v \in Engines, data \in PaperArguments : RepoCreatePaper(v, data)
    \/ \E v \in Engines : \E data \in NoteArguments(v) : RepoCreateNote(v, data)
    \/ \E v \in Engines : \E id \in PaperIdArguments(v) : RepoFindPaper(v, id)
    \/ \E v \in Engines : \E id \in PaperIdArguments(v), data \in PaperPartials :
           RepoUpdatePaper(v, id, data)
    \/ \E v \in Engines : \E id \in PaperIdArguments(v) : RepoDeletePaper(v, id)
    \/ \E v \in Engines, query \in Queries : RepoSearch(v, query)
    \/ \E v \in Engines : \E id \in NoteIdArguments(v) : RepoFindNote(v, id)
    \/ \E v \in Engines : \E id \in NoteIdArguments(v), data \in NotePartials :
           RepoUpdateNote(v, id, data)
    \/ \E v \in Engines : \E id \in NoteIdArguments(v) : RepoDeleteNote(v, id)
    \/ \E v \in Engines : \E id \in NoteIdArguments(v), a \in AnnotationArguments :
           RepoAddAnnotation(v, id, a)
    \/ \E v \in Engines : \E id \in NoteIdArguments(v), aid \in AnnotationIdArguments(v) :
           RepoRemoveAnnotation(v, id, aid)
    \/ \E v \in Engines : \E id \in NoteIdArguments(v), aid \in AnnotationIdArguments(v),
                             a \in AnnotationPartials :
           RepoUpdateAnnotation(v, id, aid, a)

RepoSpec == RepoInit /\ [][RepoNext]_vars

----------------------------------------------------------------------------
(* GET /api/database/stats?type=..., one step for each stretch between awaits *)

StatsLimit == 1000

StatsFailed(st) == [st EXCEPT !.pc = "done", !.response = "error"]

(* the selector is overwritten and the first initialize() is called *)
StatsBegin(type) ==
    /\ server = "listening"
    /\ mig.pc = "idle"
    /\ stats.pc = "idle"
    /\ runs < MaxRuns
    /\ env' = EnvString(type)
    /\ factory' = InitializeBegin(factory, env')
    /\ stats' = [IdleStats EXCEPT !.pc = "init_stats", !.type = type, !.originalType = env,
                                  !.branch = InitBranch(type), !.before = factory]
    /\ runs' = runs + 1
    /\ UNCHANGED <<connected, papers, authors, notes, nextId, server, mig, lastRun, apiCreates,
                   faults, ret>>
    /\ UNCHANGED <<citations, creating, other>>

(* the first initialize() returns *)
StatsReady ==
    /\ stats.pc = "init_stats"
    /\ \E failAt \in ConnectFailChoices(stats.branch) :
          LET r == InitializeEnd(factory, connected, stats.branch, failAt)
          IN  /\ factory' = r.factory
              /\ connected' = r.connected
              /\ faults' = IF r.threw THEN faults + 1 ELSE faults
              /\ stats' = IF r.threw THEN StatsFailed(stats) ELSE [stats EXCEPT !.pc = "count"]
    /\ UNCHANGED <<env, papers, authors, notes, nextId, server, mig, lastRun, runs, apiCreates,
                   ret>>
    /\ UNCHANGED <<citations, creating, other>>

(* both findAll(1000) calls; the selector is restored and the last initialize() is called *)
StatsCount ==
    /\ stats.pc = "count"
    /\ \E fail \in FailChoices :
          IF fail
          THEN /\ stats' = StatsFailed(stats)
               /\ faults' = faults + 1
               /\ UNCHANGED <<env, factory>>
          ELSE LET pv == GetPaperRepository(factory)
                   nv == GetNoteRepository(factory)
               IN  /\ env' = EnvString(stats.originalType)
                   /\ factory' = InitializeBegin(factory, env')
                   /\ stats' = [stats EXCEPT
                         !.pc = "init_restore",
                         !.branch = InitBranch(ReadSelector(env')),
                         !.papers = Len(PaperFindAll(pv, StatsLimit, papers[pv], authors)),
                         !.notes = Len(NoteFindAll(nv, StatsLimit, notes[nv]))]
                   /\ UNCHANGED faults
    /\ UNCHANGED <<connected, papers, authors, notes, nextId, server, mig, lastRun, runs,
                   apiCreates, ret>>
    /\ UNCHANGED <<citations, creating, other>>

(* the last initialize() returns and the response is sent *)
StatsRespond ==
    /\ stats.pc = "init_restore"
    /\ \E failAt \in ConnectFailChoices(stats.branch) :
          LET r == InitializeEnd(factory, connected, stats.branch, failAt)
          IN  /\ factory' = r.factory
              /\ connected' = r.connected
              /\ faults' = IF r.threw THEN faults + 1 ELSE faults
              /\ stats' = IF r.threw THEN StatsFailed(stats)
                          ELSE [stats EXCEPT !.pc = "done", !.response = "success"]
    /\ UNCHANGED <<env, papers, authors, notes, nextId, server, mig, lastRun, runs, apiCreates,
                   ret>>
    /\ UNCHANGED <<citations, creating, other>>

StatsReturn ==
    /\ stats.pc = "done"
    /\ stats' = IdleStats
    /\ UNCHANGED <<env, factory, connected, papers, authors, notes, nextId, server, mig, lastRun,
                   runs, apiCreates, faults, ret>>
    /\ UNCHANGED <<citations, creating, other>>

----------------------------------------------------------------------------
(* Requests served while a migrate or a stats request is suspended at an await: *)
(* Express starts every handler as its request arrives, so POST /api/papers and *)
(* POST /api/notes run between the steps of the open request.                   *)

OpenRequest == server = "listening" /\ (mig.pc # "idle" \/ stats.pc # "idle")

(* the repositories that the factory held when the open request arrived *)
FactoryBefore == IF mig.pc # "idle" THEN mig.before ELSE stats.before

(* a faulty variant: the request is served by the repository cached before the open request *)
ServingPaperRepositoryBefore(f, before) == GetPaperRepository(before)

(* repositoryFactory.getPaperRepository() of the request handler *)
ServingPaperRepository(f, before) == GetPaperRepository(f)

ServingNoteRepository(f, before) == GetNoteRepository(f)

Served(op, v, before) ==
    [op |-> op, variant |-> v, before |-> before, migPc |-> mig.pc, statsPc |-> stats.pc,
     n |-> apiCreates + 1]

(* POST /api/papers beside an open request *)
ConcurrentCreatePaper(data) ==
    /\ OpenRequest
    /\ apiCreates < MaxApiCreates
    /\ LET v == ServingPaperRepository(factory, FactoryBefore)
       IN  /\ v \in Engines
           /\ LET r == PaperCreate(v, data, papers[v], authors, nextId[v])
              IN  /\ r.ok
                  /\ papers' = [papers EXCEPT ![v] = r.papers]
                  /\ authors' = r.authors
                  /\ nextId' = [nextId EXCEPT ![v] = @ + 1]
           /\ ret' = Served("POST /api/papers", v, GetPaperRepository(FactoryBefore))
    /\ apiCreates' = apiCreates + 1
    /\ UNCHANGED <<env, factory, connected, notes, server, mig, lastRun, runs, faults, stats>>
    /\ UNCHANGED <<citations, creating, other>>

(* POST /api/notes beside an open request *)
ConcurrentCreateNote(data) ==
    /\ OpenRequest
    /\ apiCreates < MaxApiCreates
    /\ LET v == ServingNoteRepository(factory, FactoryBefore)
       IN  /\ v \in Engines
           /\ LET r == NoteCreate(v, data, notes[v], papers["postgres"], nextId[v])
              IN  /\ r.ok
                  /\ notes' = [notes EXCEPT ![v] = r.notes]
                  /\ nextId' = [nextId EXCEPT ![v] = @ + 1]
           /\ ret' = Served("POST /api/notes", v, GetNoteRepository(FactoryBefore))
    /\ apiCreates' = apiCreates + 1
    /\ UNCHANGED <<env, factory, connected, papers, authors, server, mig, lastRun, runs, faults,
                   stats>>
    /\ UNCHANGED <<citations, creating, other>>

ConcurrentNext ==
    \/ StartServer
    \/ ServerInitialized
    \/ \E data \in PaperInputs : stats.pc = "idle" /\ ApiCreatePaper(data)
    \/ \E data \in NoteInputs : stats.pc = "idle" /\ ApiCreateNote(data)
    \/ \E f \in Engines, t \in Engines : stats.pc = "idle" /\ MigrateBegin(f, t)
    \/ MigrateSourceReady
    \/ MigrateReadSource
    \/ MigrateTargetReady
    \/ MigratePaper
    \/ MigrateNote
    \/ MigrateVerify
    \/ MigrateDeleteReady
    \/ MigrateDeletePaper
    \/ MigrateDeleteNote
    \/ MigrateRestore
    \/ MigrateRespond
    \/ MigrateReturn
    \/ \E type \in Engines : StatsBegin(type)
    \/ StatsReady
    \/ StatsCount
    \/ StatsRespond
    \/ StatsReturn
    \/ \E data \in PaperInputs : ConcurrentCreatePaper(data)
    \/ \E data \in NoteInputs : ConcurrentCreateNote(data)

ConcurrentSpec == Init /\ [][ConcurrentNext]_vars

----------------------------------------------------------------------------
(* The server with citations: the requests of Next, and calls of addCitation *)
CitationNext ==
    \/ Next
    \/ \E s \in KnownPaperIds, t \in KnownPaperIds : AddCitation(s, t)

CitationSpec == Init /\ [][CitationNext]_vars

----------------------------------------------------------------------------
(* Calls of PostgresPaperRepository.create that are open at once: a call is *)
(* suspended at the await of findUnique and at the await of $transaction    *)

(* create is called and findUnique has returned *)
CreateCall(c, data) ==
    /\ creating[c].pc = "idle"
    /\ CanMakeId
    /\ creating' = [creating EXCEPT ![c] =
          IF DoiTaken(data, papers["postgres"])
          THEN [pc |-> "done", data |-> <<data>>, err |-> "DuplicateEntityError"]
          ELSE [pc |-> "checked", data |-> <<data>>, err |-> "none"]]
    /\ UNCHANGED <<env, factory, connected, papers, authors, notes, nextId, server, mig, lastRun,
                   runs, apiCreates, faults, ret, stats, citations, other>>

(* $transaction has returned or thrown; the catch wraps what is not a *)
(* DuplicateEntityError in a plain Error                              *)
CreateInsert(c) ==
    /\ creating[c].pc = "checked"
    /\ LET r == PostgresPaperInsert(creating[c].data[1], papers["postgres"], authors,
                                    nextId["postgres"])
       IN  IF r.ok
           THEN /\ papers' = [papers EXCEPT !["postgres"] = r.papers]
                /\ authors' = r.authors
                /\ nextId' = [nextId EXCEPT !["postgres"] = @ + 1]
                /\ creating' = [creating EXCEPT ![c].pc = "done"]
           ELSE /\ creating' = [creating EXCEPT ![c].pc = "done", ![c].err = "Error"]
                /\ UNCHANGED <<papers, authors, nextId>>
    /\ UNCHANGED <<env, factory, connected, notes, server, mig, lastRun, runs, apiCreates,
                   faults, ret, stats, citations, other>>

(* the caller has taken the result *)
CreateReturn(c) ==
    /\ creating[c].pc = "done"
    /\ creating' = [creating EXCEPT ![c] = IdleCreate]
    /\ UNCHANGED <<env, factory, connected, papers, authors, notes, nextId, server, mig, lastRun,
                   runs, apiCreates, faults, ret, stats, citations, other>>

RaceNext ==
    \/ \E c \in Calls, data \in PaperArguments : CreateCall(c, data)
    \/ \E c \in Calls : CreateInsert(c)
    \/ \E c \in Calls : CreateReturn(c)

RaceSpec == RepoInit /\ [][RaceNext]_vars

----------------------------------------------------------------------------
(* Requests interleaved at every await. A handler that awaits initialize() is   *)
(* resumed two promise reactions after initializePostgres / initializeMongoDB / *)
(* initializeHybrid has assigned the repositories, so the assignment and the    *)
(* handler's next statement are two steps, and steps of other open requests     *)
(* may come between them.                                                       *)

(* POST /api/database/switch: the selector is written and initialize() called. *)
(* The initialize() calls of a stats request and of a second migrate request   *)
(* act on the selector and on the factory in the same way, each with the       *)
(* database type of its own.                                                   *)
SwitchBegin(databaseType) ==
    /\ server = "listening"
    /\ other.pc = "idle"
    /\ env' = EnvString(databaseType)
    /\ factory' = InitializeBegin(factory, env')
    /\ other' = [pc |-> "init", branch |-> InitBranch(databaseType)]
    /\ UNCHANGED <<connected, papers, authors, notes, nextId, server, mig, lastRun, runs,
                   apiCreates, faults, ret, stats, citations, creating>>

(* the initialize() of the switch request returns or throws; the response is sent *)
SwitchReady ==
    /\ other.pc = "init"
    /\ \E failAt \in ConnectFailChoices(other.branch) :
          LET r == InitializeEnd(factory, connected, other.branch, failAt)
          IN  /\ factory' = r.factory
              /\ connected' = r.connected
              /\ faults' = IF r.threw THEN faults + 1 ELSE faults
    /\ other' = IdleOther
    /\ UNCHANGED <<env, papers, authors, notes, nextId, server, mig, lastRun, runs, apiCreates,
                   ret, stats, citations, creating>>

(* position of the migrate handler between the assignment of the repositories *)
(* and its own next statement                                                 *)
Returning(pc) ==
    IF pc = "init_source" THEN "source_returning"
    ELSE IF pc = "init_target" THEN "target_returning" ELSE "delete_returning"

(* initialize() of step 1, 2 or 6 has connected and assigned the repositories, *)
(* or has thrown                                                               *)
MigrateInitializeAssigned ==
    /\ mig.pc \in {"init_source", "init_target", "init_delete"}
    /\ \E failAt \in ConnectFailChoices(mig.branch) :
          LET r == InitializeEnd(factory, connected, mig.branch, failAt)
          IN  /\ factory' = r.factory
              /\ connected' = r.connected
              /\ faults' = IF r.threw THEN faults + 1 ELSE faults
              /\ mig' = IF r.threw THEN Failed(mig) ELSE [mig EXCEPT !.pc = Returning(@)]
    /\ UNCHANGED <<env, papers, authors, notes, nextId, server, lastRun, runs, apiCreates,
                   ret, stats, citations, creating, other>>

(* the handler is resumed after await repositoryFactory.initialize() and calls *)
(* getPaperRepository() and getNoteRepository()                                *)
MigrateInitializeReturned ==
    /\ mig.pc \in {"source_returning", "target_returning", "delete_returning"}
    /\ mig' = IF mig.pc = "source_returning"
              THEN [mig EXCEPT !.pc = "read_source",
                               !.sourcePaperRepo = GetPaperRepository(factory),
                               !.sourceNoteRepo = GetNoteRepository(factory)]
              ELSE IF mig.pc = "target_returning"
              THEN [mig EXCEPT !.pc = AfterTargetReady(mig), !.i = 1,
                               !.targetPaperRepo = GetPaperRepository(factory),
                               !.targetNoteRepo = GetNoteRepository(factory)]
              ELSE [mig EXCEPT !.pc = AfterDeleteReady(mig), !.i = 1,
                               !.deletePaperRepo = GetPaperRepository(factory),
                               !.deleteNoteRepo = GetNoteRepository(factory)]
    /\ UNCHANGED <<env, factory, connected, papers, authors, notes, nextId, server, lastRun,
                   runs, apiCreates, faults, ret, stats, citations, creating, other>>

(* the server listens in hybrid mode; POST /api/papers has stored one paper in *)
(* PostgreSQL and POST /api/notes one note in MongoDB; the storage operations  *)
(* that throw have thrown before                                               *)
InterleavedInit ==
    /\ env = Unset
    /\ factory = InitializeEnd(InitializeBegin(NewFactory, Unset),
                               [e \in Engines |-> FALSE], "hybrid", "none").factory
    /\ connected = [e \in Engines |-> TRUE]
    /\ \E data \in {d \in PaperInputs : d.doi = Absent /\ d.authors = <<>>} :
          LET r == PaperCreate("postgres", data, {}, {}, 0)
          IN  /\ papers = [e \in Engines |-> IF e = "postgres" THEN r.papers ELSE {}]
              /\ authors = r.authors
    /\ \E b \in {b \in NoteBodies : b.tags = <<2, 1>>} :
          LET r == NoteCreate("mongodb", [paperId |-> Absent, content |-> b.content,
                                          tags |-> b.tags, annotations |-> b.annotations],
                              {}, {}, 0)
          IN  notes = [e \in Engines |-> IF e = "mongodb" THEN r.notes ELSE {}]
    /\ nextId = [e \in Engines |-> 1]
    /\ server = "listening"
    /\ mig = IdleMig
    /\ lastRun = NoRun
    /\ runs = 0
    /\ apiCreates = MaxApiCreates
    /\ faults = MaxFaults
    /\ ret = NoCall
    /\ stats = IdleStats
    /\ citations = NoCitations
    /\ creating = NoCreates
    /\ other = IdleOther

(* no handler is started between the promise reactions that resume another one *)
MigrateResuming == mig.pc \in {"source_returning", "target_returning", "delete_returning"}

InterleavedNext ==
    \/ \E f \in Engines, t \in Engines : MigrateBegin(f, t)
    \/ MigrateInitializeAssigned
    \/ MigrateInitializeReturned
    \/ MigrateReadSource
    \/ MigratePaper
    \/ MigrateNote
    \/ MigrateVerify
    \/ MigrateDeletePaper
    \/ MigrateDeleteNote
    \/ MigrateRestore
    \/ MigrateRespond
    \/ MigrateReturn
    \/ \E t \in {"postgres", "mongodb", "hybrid"} : ~MigrateResuming /\ SwitchBegin(t)
    \/ SwitchReady

InterleavedSpec == InterleavedInit /\ [][InterleavedNext]_vars

----------------------------------------------------------------------------
(* Properties of the migration *)

Ids(S) == {r.id : r \in S}

InRun == mig.pc # "idle"

Responded == mig.pc = "done" /\ mig.response = "success"

CreateThrew ==
    \/ \E k \in 1..Len(mig.paperLog) : mig.paperLog[k] = "failed"
    \/ \E k \in 1..Len(mig.noteLog) : mig.noteLog[k] = "failed"

CountsReconcile ==
    /\ mig.migratedPapers + mig.skippedPapers = Len(mig.sourcePapers)
    /\ mig.migratedNotes + mig.skippedNotes = Len(mig.sourceNotes)

SourceChanges ==
    \/ papers'[mig.from] # papers[mig.from]
    \/ notes'[mig.from] # notes[mig.from]

(* C1: during a migrate run the source engine's papers and notes change only   *)
(* in the delete loops, which are entered only when migrated + skipped equals  *)
(* the number of source papers and of source notes; so once a create in the    *)
(* target has thrown the source collections are never touched by the run.      *)
C1_SourceDeletionGated ==
    [][ (InRun /\ SourceChanges) =>
            /\ mig.pc \in {"delete_papers", "delete_notes"}
            /\ CountsReconcile
            /\ ~CreateThrew ]_vars

(* a run that answered after a create threw, its source still what it read *)
C1_Witness ==
    /\ Responded
    /\ CreateThrew
    /\ Len(mig.sourcePapers) + Len(mig.sourceNotes) >= 2
    /\ Ids(papers[mig.from]) = {mig.sourcePapers[k].id : k \in 1..Len(mig.sourcePapers)}
    /\ Ids(notes[mig.from]) = {mig.sourceNotes[k].id : k \in 1..Len(mig.sourceNotes)}

CountOf(log, what) == Cardinality({k \in 1..Len(log) : log[k] = what})

SnapshotIds ==
    {mig.sourcePapers[k].id : k \in 1..Len(mig.sourcePapers)}
        \cup {mig.sourceNotes[k].id : k \in 1..Len(mig.sourceNotes)}

(* records of the snapshot that the source engine still holds *)
LeftInSource ==
    (Ids(papers[mig.from]) \cup Ids(notes[mig.from])) \cap SnapshotIds

(* C8: a migrate response reports moved = true exactly when migrated + skipped *)
(* equals the source count for papers and for notes; failed creates and failed *)
(* deletes change nothing else in the outcome, and the response is the normal  *)
(* success response whether the migration was complete or partial.             *)
C8_MovedIffReconciled ==
    /\ Responded => (mig.moved <=> CountsReconcile)
    /\ (mig.pc = "done" /\ mig.failedAt = Null) => mig.response = "success"
    /\ (mig.pc = "done" /\ mig.response = "error") =>
            mig.failedAt \in {"init_source", "read_source", "init_target", "verify",
                              "init_delete", "init_restore"}

(* a partial migration answered with the success response *)
C8_Witness ==
    /\ Responded
    /\ ~mig.moved
    /\ mig.migratedPapers + mig.skippedPapers < Len(mig.sourcePapers)
    /\ mig.migratedNotes + mig.skippedNotes = Len(mig.sourceNotes)
    /\ Len(mig.sourceNotes) > 0

(* C9: a create or a delete that throws inside a loop ends neither the loop   *)
(* nor the request: when the response is sent every source paper and note has *)
(* been through its loop, the failed ones are counted neither as migrated nor *)
(* as skipped, and of a deleted batch at most the records whose delete threw  *)
(* are left in the source.                                                    *)
C9_FailureDoesNotAbort ==
    /\ Responded =>
          /\ Len(mig.paperLog) = Len(mig.sourcePapers)
          /\ Len(mig.noteLog) = Len(mig.sourceNotes)
          /\ mig.migratedPapers = CountOf(mig.paperLog, "migrated")
          /\ mig.skippedPapers = CountOf(mig.paperLog, "skipped")
          /\ mig.migratedNotes = CountOf(mig.noteLog, "migrated")
          /\ mig.skippedNotes = CountOf(mig.noteLog, "skipped")
          /\ (mig.deletePaperRepo # Null =>
                 Cardinality(LeftInSource) <= Len(mig.deleteLog))
    /\ (mig.pc = "done" /\ mig.response = "error") =>
            mig.failedAt \notin {"papers", "notes", "delete_papers", "delete_notes"}

(* the first record's create threw, the second was still migrated, and the *)
(* request answered                                                        *)
C9_Witness ==
    /\ Responded
    /\ Len(mig.paperLog) + Len(mig.noteLog) >= 2
    /\ \/ Len(mig.paperLog) > 0 /\ mig.paperLog[1] = "failed"
       \/ Len(mig.paperLog) = 0 /\ mig.noteLog[1] = "failed"
    /\ mig.migratedPapers + mig.migratedNotes >= 1

(* the first delete threw and the rest of the batch was still deleted *)
C9_DeleteWitness ==
    /\ Responded
    /\ mig.deleteLog # <<>>
    /\ Cardinality(SnapshotIds) >= 2
    /\ Cardinality(LeftInSource) = 1

Names(as) == [i \in 1..Len(as) |-> as[i].name]

TagSet(tags) == {tags[i] : i \in 1..Len(tags)}

SameTitle(a, b) == ToLowerCase(a) = ToLowerCase(b)

NoteCounterpart(note, N) ==
    \E t \in N : t.content = note.content /\ TagSet(t.tags) = TagSet(note.tags)

PaperCounterpart(paper, P) ==
    \E t \in P : (paper.doi # Absent /\ t.doi = paper.doi) \/ SameTitle(t.title, paper.title)

C3_SecondRunMigratesNothing ==
    (/\ Responded
     /\ faults = 0
     /\ lastRun.response = "success"
     /\ lastRun.from = mig.from
     /\ lastRun.to = mig.to) =>
        /\ mig.migratedPapers = 0
        /\ mig.migratedNotes = 0
        /\ Cardinality(papers[mig.to]) = lastRun.targetPapers
        /\ Cardinality(notes[mig.to]) = lastRun.targetNotes

(* an iteration of the paper loop in an execution where no storage operation is made to throw *)
PaperStep == mig.pc = "papers" /\ faults = 0 /\ faults' = 0

(* C4: an iteration of the paper loop counts the source paper as skipped, and  *)
(* creates nothing, exactly when the target holds a paper with the same DOI or *)
(* a paper whose title equals the source title ignoring case; otherwise it     *)
(* creates the paper in the target and counts it as migrated.                  *)
C4_PaperSkippedIffDuplicate ==
    [][ PaperStep =>
          IF PaperCounterpart(mig.sourcePapers[mig.i], papers[mig.to])
          THEN /\ mig'.skippedPapers = mig.skippedPapers + 1
               /\ mig'.migratedPapers = mig.migratedPapers
               /\ papers' = papers
          ELSE /\ mig'.migratedPapers = mig.migratedPapers + 1
               /\ mig'.skippedPapers = mig.skippedPapers
               /\ Cardinality(papers'[mig.to]) = Cardinality(papers[mig.to]) + 1 ]_vars

(* C5: a paper created by the paper loop equals its source paper in title, *)
(* DOI, keywords, journal, conference and ordered author list.             *)
C5_CreatedPaperEqualsSource ==
    [][ (mig.pc = "papers" /\ mig'.migratedPapers = mig.migratedPapers + 1) =>
          \A r \in papers'[mig.to] \ papers[mig.to] :
              LET t == MapToPaper(mig.to, r, authors')
                  paper == mig.sourcePapers[mig.i]
              IN  /\ t.title = paper.title
                  /\ t.doi = paper.doi
                  /\ t.keywords = paper.keywords
                  /\ t.journal = paper.journal
                  /\ t.conference = paper.conference
                  /\ t.authors = paper.authors ]_vars

(* an iteration of the note loop in an execution where no storage operation is made to throw *)
NoteStep == mig.pc = "notes" /\ faults = 0 /\ faults' = 0

NoteDuplicate(note, v, N) ==
    IF note.paperId # Absent
    THEN \E t \in N : /\ t.paperId = note.paperId
                      /\ t.content = note.content
                      /\ TagSet(t.tags) = TagSet(note.tags)
    ELSE LET found == NoteFindByContent(v, Substring(note.content, 0, ContentPrefixLen), N)
         IN  \E k \in 1..Len(found) : /\ found[k].content = note.content
                                      /\ TagSet(found[k].tags) = TagSet(note.tags)

(* C6: an iteration of the note loop counts the source note as skipped exactly *)
(* when the target holds a note of the same owning paper (for a standalone     *)
(* note: a note the content-prefix search returns) with identical content and  *)
(* an equal tag set; otherwise it creates the note in the target and counts it *)
(* as migrated.                                                                *)
C6_NoteSkippedIffDuplicate ==
    [][ NoteStep =>
          IF NoteDuplicate(mig.sourceNotes[mig.i], mig.to, notes[mig.to])
          THEN /\ mig'.skippedNotes = mig.skippedNotes + 1
               /\ mig'.migratedNotes = mig.migratedNotes
               /\ notes' = notes
          ELSE /\ mig'.migratedNotes = mig.migratedNotes + 1
               /\ mig'.skippedNotes = mig.skippedNotes
               /\ Cardinality(notes'[mig.to]) = Cardinality(notes[mig.to]) + 1 ]_vars

(* C7: when a migrate request has answered with the success response, the     *)
(* selector getDatabaseType() returns and the variants the accessors return   *)
(* are those of the moment the request began; stated here for the executions  *)
(* in which no storage operation throws.                                      *)
C7_FactoryRestored ==
    (Responded /\ faults = 0) =>
        /\ GetDatabaseType(factory) = GetDatabaseType(mig.before)
        /\ GetPaperRepository(factory) = GetPaperRepository(mig.before)
        /\ GetNoteRepository(factory) = GetNoteRepository(mig.before)

----------------------------------------------------------------------------
(* Properties of the factory *)

InitPhases == {"init_source", "init_target", "init_delete", "init_restore"}

(* a step of the switch handler *)
SwitchStep == Serving /\ mig' = mig /\ apiCreates' = apiCreates /\ server' = server

(* a step in which an initialize() call returns without throwing *)
InitializeReturned ==
    /\ faults' = faults
    /\ \/ server = "starting"
       \/ mig.pc \in InitPhases
       \/ SwitchStep

(* what the selector promises of the accessors and the connections *)
SelectorRouting(f, c) ==
    /\ f.databaseType = "postgres" =>
          /\ GetPaperRepository(f) = "postgres"
          /\ GetNoteRepository(f) = "postgres"
    /\ f.databaseType = "mongodb" =>
          /\ GetPaperRepository(f) = "mongodb"
          /\ GetNoteRepository(f) = "mongodb"
    /\ f.databaseType = "hybrid" =>
          /\ c["postgres"] /\ c["mongodb"]
          /\ GetPaperRepository(f) = "postgres"
          /\ GetNoteRepository(f) = "mongodb"

(* C11: when initialize() returns, selector postgres gives relational variants *)
(* from both accessors, selector mongodb gives document variants from both,    *)
(* and selector hybrid leaves both engines connected with the relational paper *)
(* repository and the document note repository.                                *)
C11_SelectorRouting ==
    [][ InitializeReturned => SelectorRouting(factory', connected') ]_vars

(* the server switched from postgres to hybrid *)
C11_Witness ==
    /\ Serving
    /\ env = "hybrid"
    /\ factory.databaseType = "hybrid"
    /\ connected["postgres"] /\ connected["mongodb"]
    /\ GetPaperRepository(factory) = "postgres"
    /\ GetNoteRepository(factory) = "mongodb"

(* the engines of the repositories that the initialize() of a selector constructs *)
PaperEngineOf(sel) == IF sel = "mongodb" THEN "mongodb" ELSE "postgres"

NoteEngineOf(sel) == IF sel = "postgres" THEN "postgres" ELSE "mongodb"

(* C12: once initialize() has been called with a selector, an accessor called  *)
(* by the next request does not return a repository that an earlier            *)
(* initialize() constructed for another engine: what it returns is bound to    *)
(* the engine of the selector last passed to initialize().                     *)
C12_InitializeDiscardsCached ==
    Serving =>
        /\ GetPaperRepository(factory) \in {NotInitialized, PaperEngineOf(factory.databaseType)}
        /\ GetNoteRepository(factory) \in {NotInitialized, NoteEngineOf(factory.databaseType)}

(* C13: whenever the selector is not postgres (document mode, hybrid mode),   *)
(* getCitationRepository() throws "Citation repository not implemented".      *)
C13_CitationRepositoryThrows ==
    factory.databaseType # "postgres" => GetCitationRepository(factory) = NotImplemented

(* the server runs in document mode *)
C13_Witness ==
    /\ Serving
    /\ factory.databaseType = "mongodb"
    /\ GetNoteRepository(factory) = "mongodb"
    /\ GetCitationRepository(factory) = NotImplemented

(* C14: after cleanup() has returned, every connection opened since the    *)
(* process started is disconnected; stated here for the executions in which *)
(* no connect() call and no storage operation throws.                       *)
C14_CleanupDisconnectsAll ==
    (server = "stopped" /\ faults = 0) => \A e \in Engines : ~connected[e]

(* C26: whenever no initialize() call is in progress, getDatabaseType() agrees   *)
(* with the cached repositories (postgres: both relational; mongodb: both       *)
(* document; hybrid, and any selector that initialize() takes for hybrid:       *)
(* relational papers and document notes), also after an initialize() or switch  *)
(* request that failed to connect.                                              *)
C26_SelectorAgreesWithCache ==
    Serving =>
        LET branch == InitBranch(GetDatabaseType(factory))
        IN  /\ GetPaperRepository(factory) = PaperEngineOf(branch)
            /\ GetNoteRepository(factory) = NoteEngineOf(branch)

----------------------------------------------------------------------------
(* Properties of the repositories, for the direct repository calls *)

StoreOf(op) == IF op \in {"createPaper", "findPaper", "updatePaper", "deletePaper"}
               THEN papers ELSE notes

(* the step is the call op, and before it the id of the call matches no record *)
CallOnMissing(ops) ==
    /\ ret'.op \in ops
    /\ ret'.id \notin Ids(StoreOf(ret'.op)[ret'.variant])

CallOnExisting(ops) ==
    /\ ret'.op \in ops
    /\ ret'.id \in Ids(StoreOf(ret'.op)[ret'.variant])

ReturnedNull == ret'.err = "none" /\ ret'.val = <<>>

CountsUnchanged ==
    \A e \in Engines : /\ PaperCount(papers'[e]) = PaperCount(papers[e])
                       /\ NoteCount(notes'[e]) = NoteCount(notes[e])

(* C16: update(id, data) with an id that matches no record returns null without *)
(* throwing and leaves count() unchanged, for the paper and the note repository *)
(* of both storage variants.                                                    *)
C16_UpdateMissingReturnsNull ==
    [][ CallOnMissing({"updatePaper", "updateNote"}) => ReturnedNull /\ CountsUnchanged ]_vars

(* C17: delete(id) with an id that matches no record returns false without      *)
(* throwing and removes nothing; delete(id) of an existing paper returns true,  *)
(* and findById(id) returns null from then on.                                  *)
C17_DeleteResult ==
    [][ /\ CallOnMissing({"deletePaper", "deleteNote"}) =>
              /\ ret'.err = "none" /\ ~ret'.found
              /\ papers' = papers /\ notes' = notes /\ authors' = authors
        /\ CallOnExisting({"deletePaper"}) =>
              /\ ret'.err = "none" /\ ret'.found
              /\ ret'.id \notin Ids(papers'[ret'.variant])
        /\ \A e \in Engines : \A n \in 1..nextId[e] :
              NewId(e, n) \notin Ids(papers[e]) =>
                  /\ NewId(e, n) \notin Ids(papers'[e])
                  /\ PaperFindById(e, NewId(e, n), papers'[e], authors', notes'[e]).err = "none"
                  /\ PaperFindById(e, NewId(e, n), papers'[e], authors', notes'[e]).val = <<>>
      ]_vars

(* C18: create of a paper whose non-null DOI equals the DOI of an existing paper *)
(* fails with DuplicateEntityError, stores nothing (no paper, author or join    *)
(* row) and leaves the existing paper unchanged, in both storage variants.      *)
C18_DuplicateDoiRejected ==
    [][ ( /\ ret'.op = "createPaper"
          /\ ret'.data.doi # Absent
          /\ \E r \in papers[ret'.variant] : r.doi = ret'.data.doi )
        => /\ ret'.err = "DuplicateEntityError"
           /\ papers' = papers /\ authors' = authors /\ notes' = notes
      ]_vars

AnnotationOps == {"addAnnotation", "removeAnnotation", "updateAnnotation"}

(* before the step the note of the call exists and holds no annotation of the given id *)
AnnotationMissing ==
    /\ CallOnExisting({"removeAnnotation", "updateAnnotation"})
    /\ ret'.annotationId \notin AnnotationIds(RowOf(notes[ret'.variant], ret'.id))

(* the call returned the note as it is stored after the call *)
ReturnedWholeNote ==
    /\ ret'.err = "none"
    /\ \E r \in notes'[ret'.variant] :
          r.id = ret'.id /\ ret'.val = <<MapToNote(ret'.variant, r)>>

(* C19: addAnnotation, removeAnnotation and updateAnnotation throw               *)
(* EntityNotFoundError when the note does not exist, removeAnnotation and       *)
(* updateAnnotation also when the note exists but holds no annotation of the    *)
(* given id; in every other case they return the whole updated note.            *)
C19_AnnotationOutcome ==
    [][ ret'.op \in AnnotationOps =>
            IF CallOnMissing(AnnotationOps) \/ AnnotationMissing
            THEN ret'.err = "EntityNotFoundError"
            ELSE ReturnedWholeNote
      ]_vars

PaperFields == {"title", "doi", "keywords", "journal", "conference", "authors"}
NoteFields == {"content", "tags", "paperId", "annotations"}

(* the fields of the record of the call that the partial does not name are the same *)
(* after the step as before it                                                      *)
UnnamedFieldsKept(fields, before, after) ==
    \A f \in fields \ DOMAIN ret'.data : after[f] = before[f]

(* C20: update(id, partial) changes only the fields present in partial: every   *)
(* field of the stored record that partial does not name (for a note: content,  *)
(* tags, owning paper id and the annotation list; for a paper: every unnamed    *)
(* field including the author list) has the same value after the update.        *)
C20_UpdateKeepsUnnamedFields ==
    [][ /\ CallOnExisting({"updatePaper"}) =>
              LET v == ret'.variant
              IN  /\ ret'.id \in Ids(papers'[v])
                  /\ UnnamedFieldsKept(PaperFields,
                                       MapToPaper(v, RowOf(papers[v], ret'.id), authors),
                                       MapToPaper(v, RowOf(papers'[v], ret'.id), authors'))
        /\ CallOnExisting({"updateNote"}) =>
              LET v == ret'.variant
              IN  /\ ret'.id \in Ids(notes'[v])
                  /\ UnnamedFieldsKept(NoteFields,
                                       RowOf(notes[v], ret'.id), RowOf(notes'[v], ret'.id))
      ]_vars

(* C30: updateAnnotation(noteId, annotationId, data) modifies only annotations  *)
(* that belong to note noteId: it changes no annotation of any other note, and  *)
(* whenever it throws EntityNotFoundError no stored annotation has been changed. *)
C30_UpdateAnnotationStaysInNote ==
    [][ ret'.op = "updateAnnotation" =>
            /\ \A r \in notes[ret'.variant] :
                  r.id # ret'.id =>
                      \E t \in notes'[ret'.variant] :
                          t.id = r.id /\ t.annotations = r.annotations
            /\ ret'.err = "EntityNotFoundError" => notes' = notes
      ]_vars

(* the paper holds q in its title or in one of its keywords, ignoring case *)
Mentions(paper, q) ==
    \/ ContainsInsensitive(paper.title, q)
    \/ \E k \in paper.keywords : ContainsInsensitive(k, q)

(* C21: search({query: q}) returns exactly the papers whose title, abstract or  *)
(* keywords contain q ignoring case, the same set on the same stored data       *)
(* whichever storage variant is active.                                         *)
C21_SearchFindsMentions ==
    [][ ret'.op = "search" =>
            {ret'.val[i].id : i \in 1..Len(ret'.val)} =
                {r.id : r \in {x \in papers[ret'.variant] : Mentions(x, ret'.data.query)}}
      ]_vars

----------------------------------------------------------------------------
(* Properties of the requests served beside a migrate or a stats request *)

(* positions of the migrate handler after its first initialize() has returned *)
(* and before its last initialize() is called                                 *)
SourceSelected == {"read_source", "init_target"}
TargetSelected == {"papers", "notes", "verify", "init_delete"}
SourceReselected == {"delete_papers", "delete_notes", "restore"}

MigrateWindow == SourceSelected \cup TargetSelected \cup SourceReselected

(* the position of the stats handler between its two initialize() calls *)
StatsWindow == {"count"}

(* the engine that the open request has selected for the time being *)
TemporaryEngine ==
    IF stats.pc \in StatsWindow THEN stats.type
    ELSE IF mig.pc \in TargetSelected THEN mig.to
    ELSE mig.from

InWindow == mig.pc \in MigrateWindow \/ stats.pc \in StatsWindow

ConcurrentRequestServed ==
    /\ ret' # ret
    /\ ret'.op \in {"POST /api/papers", "POST /api/notes"}

C15_StatsWitness ==
    /\ ret.op = "POST /api/notes"
    /\ ret.statsPc \in StatsWindow
    /\ ret.before \in Engines
    /\ ret.variant # ret.before

(* C22: a stats request for engine T reports the number of papers and the number *)
(* of notes stored in T, and when it returns the factory's active engine         *)
(* selector is the same as immediately before the request.                       *)
C22_StatsCountsAndRestores ==
    [][ /\ (stats.pc = "count" /\ stats'.pc = "init_restore") =>
              /\ stats'.papers = Cardinality(papers[stats.type])
              /\ stats'.notes = Cardinality(notes[stats.type])
        /\ (stats.pc = "init_restore" /\ stats'.response = "success") =>
              GetDatabaseType(factory') = GetDatabaseType(stats.before)
      ]_vars

(* C25: if a migrate or stats request ends with an error response because an     *)
(* initialize() or findAll() call throws, the factory's active engine selector   *)
(* and the DATABASE_TYPE configuration after the request are the same as before  *)
(* the request.                                                                  *)
C25_ErrorLeavesSelector ==
    /\ (mig.pc = "done" /\ mig.response = "error") =>
          /\ env = mig.originalType
          /\ GetDatabaseType(factory) = GetDatabaseType(mig.before)
    /\ (stats.pc = "done" /\ stats.response = "error") =>
          /\ env = stats.originalType
          /\ GetDatabaseType(factory) = GetDatabaseType(stats.before)

----------------------------------------------------------------------------
(* Properties of what a migration carries over *)

(* an annotation list without the ids, which each engine assigns itself *)
AnnotationContents(as) ==
    [i \in 1..Len(as) |-> [type |-> as[i].type, pageNumber |-> as[i].pageNumber]]

(* C28: a note that an iteration of the note loop creates in the target holds  *)
(* the same annotation list as the source note of the iteration: as many       *)
(* annotations, each of the same type and page number, whichever the direction *)
(* of the migration.                                                           *)
C28_CreatedNoteKeepsAnnotations ==
    [][ mig.pc = "notes" =>
          \A t \in notes'[mig.to] \ notes[mig.to] :
              AnnotationContents(MapToNote(mig.to, t).annotations)
                  = AnnotationContents(mig.sourceNotes[mig.i].annotations) ]_vars

(* the positions of the source papers that own the note and that the paper loop *)
(* counted as migrated or as skipped                                            *)
CountedOwners(m, note) ==
    {k \in 1..Len(m.sourcePapers) :
        /\ m.sourcePapers[k].id = note.paperId
        /\ m.paperLog[k] \in {"migrated", "skipped"}}

(* C29: when the source holds a paper and a note that the paper owns, and the  *)
(* paper was counted as migrated or skipped, the iteration of the note loop    *)
(* counts the note as migrated or skipped too, and the owning paper id of a    *)
(* copy it creates in the target is the id of a paper of the target; stated    *)
(* for the iterations in which no storage operation was made to throw.         *)
C29_NoteFollowsItsPaper ==
    [][ (NoteStep /\ CountedOwners(mig, mig.sourceNotes[mig.i]) # {}) =>
          /\ mig'.migratedNotes + mig'.skippedNotes = mig.migratedNotes + mig.skippedNotes + 1
          /\ \A t \in notes'[mig.to] \ notes[mig.to] :
                 \E p \in papers'[mig.to] : p.id = t.paperId ]_vars

(* the papers of the target that stand for the source paper with the given id: *)
(* those the duplicate check of the paper loop takes for it                    *)
CopiesOf(id, m) ==
    {t.id : t \in {t \in papers[m.to] :
        \E k \in 1..Len(m.sourcePapers) :
            /\ m.sourcePapers[k].id = id
            /\ \/ (Truthy(t.doi) /\ t.doi = m.sourcePapers[k].doi)
               \/ ToLowerCase(t.title) = ToLowerCase(m.sourcePapers[k].title)}}

(* the citation is still stored in the source, or the target stores a citation *)
(* between the copies of its two papers                                        *)
CitationKept(c, m) ==
    \/ c \in citations'[m.from]
    \/ \E d \in citations'[m.to] : d[1] \in CopiesOf(c[1], m) /\ d[2] \in CopiesOf(c[2], m)

(* C27: in a migration out of PostgreSQL, a citation the source stores before  *)
(* a step of the deletion phase is afterwards still stored in the source, or   *)
(* the target stores it: the deletion of the migrated source papers destroys   *)
(* no citation that was not copied.                                            *)
C27_CitationsSurviveMigration ==
    [][ (mig.pc = "delete_papers" /\ mig.from = "postgres") =>
          \A c \in citations[mig.from] : CitationKept(c, mig) ]_vars

----------------------------------------------------------------------------
(* Properties of the calls of create that are open at once *)

(* C23: when calls of PostgresPaperRepository.create for papers with the same  *)
(* DOI are open at once, PostgreSQL stores at most one paper with that DOI,    *)
(* and a call that fails while a paper with its DOI is stored has failed with  *)
(* DuplicateEntityError; stated for the DOIs that are not the empty string.    *)
C23_LoserGetsDuplicateEntityError ==
    /\ \A r1 \in papers["postgres"], r2 \in papers["postgres"] :
          (Truthy(r1.doi) /\ r1.doi = r2.doi) => r1 = r2
    /\ \A c \in Calls :
          (/\ creating[c].pc = "done"
           /\ creating[c].err # "none"
           /\ DoiTaken(creating[c].data[1], papers["postgres"]))
              => creating[c].err = "DuplicateEntityError"

----------------------------------------------------------------------------
(* Properties of a migration beside switch, stats and migrate requests *)

BoundTo(repo, databaseType) == repo \in {Null, databaseType}

(* C24: whatever steps of switch, stats and migrate requests come between the  *)
(* steps of a migrate request, the repositories it reads from and deletes from *)
(* are those of fromDatabase, and the repositories it runs the duplicate       *)
(* checks and the creates against are those of toDatabase.                     *)
C24_MigrationBoundToItsEngines ==
    mig.pc # "idle" =>
        /\ BoundTo(mig.sourcePaperRepo, mig.from) /\ BoundTo(mig.sourceNoteRepo, mig.from)
        /\ BoundTo(mig.targetPaperRepo, mig.to) /\ BoundTo(mig.targetNoteRepo, mig.to)
        /\ BoundTo(mig.deletePaperRepo, mig.from) /\ BoundTo(mig.deleteNoteRepo, mig.from)

====
